---------------------------- MODULE Spec2Model ----------------------------
(***************************************************************************)
(* A model of obj2dl (tools/obj2dl/obj2dl.py and mtl_parser.py): the       *)
(* Wavefront OBJ to NDS display list converter.                            *)
(*                                                                         *)
(* The converter is a pipeline of pure functions.  Each part is modelled   *)
(* by operators translated from the Python code and driven by its own      *)
(* specification, which draws the inputs from bounded sets:                *)
(*   SpecVertex    parse_face_vertex, then emit_vertex on the key          *)
(*   SpecStrip     stripify_triangles and stripify_quads                   *)
(*   SpecParseObj  parse_obj, one input line per step                      *)
(*   SpecDlmm      save_dlmm, the bytes of the container                   *)
(*   SpecConvert   convert_obj, batch by batch                             *)
(*   SpecPack      the colour packing functions of mtl_parser              *)
(*   SpecPipeline  parse_obj, then convert_obj on what it returned         *)
(*   SpecRerun     the same, run twice on the same parsed input            *)
(* The variables of the parts a specification does not drive stay at       *)
(* their idle values.                                                      *)
(*                                                                         *)
(* Conventions.  Python's None is the empty tuple and a present optional   *)
(* integer k is <<k>> (None, Some).  Python lists are sequences; list and  *)
(* face indices keep Python's 0-based values, so element i of list l is    *)
(* l[i + 1].  Floats are dyadic rationals counted in quarters (1.0 is 4),  *)
(* on which the float operations used here are exact.                      *)
(***************************************************************************)
EXTENDS Integers, Sequences, FiniteSets, TLC

VARIABLES
    \* ---- parse_face_vertex / emit_vertex ----
    vertex_str,        \* the corner token after split('/'): a tuple of strings
    use_vertex_color,  \* the use_vertex_color argument
    vertices,          \* parsed position table
    texcoords,         \* parsed texcoord table
    normals,           \* parsed normal table
    texture_size,      \* <<width, height>>
    model_scale,       \* scale factor
    model_translation, \* <<tx, ty, tz>>
    vk,                \* result of parse_face_vertex: [err, key]
    emitted,           \* result of emit_vertex: [err, dl]
    vpc,               \* "token", "parsed", "emitted", "failed"
    \* ---- stripify_triangles / stripify_quads ----
    resolved,          \* resolved_tris or resolved_quads: the faces of a batch
    arity,             \* 3 (stripify_triangles) or 4 (stripify_quads)
    start_fi,          \* the outer loop's face index
    used,              \* set of face indices already placed
    strips,            \* list of strips, each a list of vertex keys
    folded,            \* best_faces of each strip: the faces it encodes
    singles,           \* list of face indices left as singles
    spc,               \* "build", "loop", "done"
    \* ---- parse_obj ----
    obj_file,          \* the lines read so far, each a tuple of tokens
    material_faces,    \* list of <<material name, list of faces>>, by insertion
    current_material,  \* the active material name (a tuple of tokens)
    mtl_file,          \* None or Some(name of the material library)
    oerr,              \* "" or the exception parse_obj raised
    opc,               \* "reading", "returned", "failed"
    \* ---- save_dlmm ----
    submeshes,         \* the list of submesh records to write
    output_file,       \* None, or Some(the bytes of the file written)
    dpc,               \* "build", "saved"
    \* ---- convert_obj ----
    multi_material,    \* the multi_material argument
    no_strip,          \* the no_strip argument
    mat_index,         \* the material of the loop of line 585 (0: legacy path)
    face_index,        \* the number of faces of the current list resolved
    resolved_tris,     \* the triangles of the current batch
    resolved_quads,    \* the quads of the current batch
    strip_calls,       \* the calls of the stripifiers made so far
    cerr,              \* the exception convert_obj raised, or NoError
    written,           \* what was handed to the file writer, or NotWritten
    cpc,               \* "main", "exit", "build", "resolve", "done", "failed"
    args_texture,      \* the --texture argument: None or Some(list of ints)
    files,             \* the material library and the images on disk
    materials,         \* the materials table of line 530
    tex_sizes,         \* the texture size of each generate_display_list call
    \* ---- mtl_parser: the packing functions ----
    first_color,       \* the first colour argument (Kd or Ks)
    second_color,      \* the second colour argument (Ka or Ke)
    flag,              \* the vtxcolor / use_shininess argument
    packed,            \* None, or Some of the two packed words
    kpc,               \* "args", "packed"
    \* ---- two runs of the conversion on the same parsed input ----
    hash_seed,         \* the hash seed of the interpreter process of this run
    strip_results,     \* what the stripifiers returned to each batch so far
    previous           \* None, or Some of what the previous run produced

varsEnv == <<use_vertex_color, vertices, texcoords, normals, texture_size,
             model_scale, model_translation>>

varsTok == <<vertex_str, vk, emitted, vpc>>

varsStrip == <<resolved, arity, start_fi, used, strips, folded, singles, spc>>

varsObj == <<obj_file, material_faces, current_material, mtl_file, oerr, opc>>

varsDlmm == <<submeshes, output_file, dpc>>

varsConv == <<multi_material, no_strip, mat_index, face_index, resolved_tris,
              resolved_quads, strip_calls, cerr, written, cpc, args_texture,
              files, materials, tex_sizes>>

varsPack == <<first_color, second_color, flag, packed, kpc>>

varsRun == <<hash_seed, strip_results, previous>>

vars == <<varsEnv, varsTok, varsStrip, varsObj, varsDlmm, varsConv, varsPack,
          varsRun>>

----------------------------------------------------------------------------
(* Python values *)

None == <<>>
Some(k) == <<k>>

\* l[i] of a Python list: a negative i counts from the end, and an i outside
\* -len(l) .. len(l)-1 raises IndexError.
PyIndexOk(l, i) == -Len(l) <= i /\ i < Len(l)
PyIndex(l, i) == IF i >= 0 THEN l[i + 1] ELSE l[Len(l) + i + 1]

\* int(s): the integer a literal denotes; any other string raises ValueError.
IntLiterals == {"-2", "-1", "0", "1", "2", "3", "4", "5", "6", "7"}
PyIntOk(s) == s \in IntLiterals
PyInt(s) ==
    CASE s = "-2" -> -2 [] s = "-1" -> -1 [] s = "0" -> 0 [] s = "1" -> 1
      [] s = "2" -> 2 [] s = "3" -> 3 [] s = "4" -> 4 [] s = "5" -> 5
      [] s = "6" -> 6 [] s = "7" -> 7

----------------------------------------------------------------------------
(* parse_face_vertex *)

ErrInvalidFaceVertex == "OBJFormatError: Invalid face vertex"
ErrNegative == "OBJFormatError: Unsupported negative indices"
ErrValue == "ValueError"
ErrIndex == "IndexError"

Raise(e) == [err |-> e, key |-> <<>>]
Return(k) == [err |-> "", key |-> k]

\* ParseTokens with the normal slot converted in vertex-color mode too.
ParseTokensAlwaysNormal(tokens, vcolor) ==
    CASE Len(tokens) = 1 ->
           IF ~PyIntOk(tokens[1]) THEN <<ErrValue, 0, None, None>>
           ELSE <<"", PyInt(tokens[1]), None, None>>
      [] Len(tokens) = 2 ->
           IF ~PyIntOk(tokens[1]) \/ ~PyIntOk(tokens[2])
           THEN <<ErrValue, 0, None, None>>
           ELSE <<"", PyInt(tokens[1]), Some(PyInt(tokens[2])), None>>
      [] Len(tokens) = 3 ->
           IF ~PyIntOk(tokens[1]) THEN <<ErrValue, 0, None, None>>
           ELSE IF tokens[2] # "" /\ ~PyIntOk(tokens[2])
           THEN <<ErrValue, 0, None, None>>
           ELSE IF ~PyIntOk(tokens[3])
           THEN <<ErrValue, 0, None, None>>
           ELSE <<"", PyInt(tokens[1]),
                  IF tokens[2] # "" THEN Some(PyInt(tokens[2])) ELSE None,
                  Some(PyInt(tokens[3]))>>
      [] OTHER -> <<ErrInvalidFaceVertex, 0, None, None>>

\* Lines 60-77: the int() conversions, in the order the code makes them.
\* The result is <<err, vertex_index, texcoord_index, normal_index>> with the
\* raw (1-based) values, before any sign check.
ParseTokens(tokens, vcolor) ==
    CASE Len(tokens) = 1 ->
           IF ~PyIntOk(tokens[1]) THEN <<ErrValue, 0, None, None>>
           ELSE <<"", PyInt(tokens[1]), None, None>>
      [] Len(tokens) = 2 ->
           IF ~PyIntOk(tokens[1]) \/ ~PyIntOk(tokens[2])
           THEN <<ErrValue, 0, None, None>>
           ELSE <<"", PyInt(tokens[1]), Some(PyInt(tokens[2])), None>>
      [] Len(tokens) = 3 ->
           IF ~PyIntOk(tokens[1]) THEN <<ErrValue, 0, None, None>>
           ELSE IF tokens[2] # "" /\ ~PyIntOk(tokens[2])
           THEN <<ErrValue, 0, None, None>>
           ELSE IF ~vcolor /\ ~PyIntOk(tokens[3])
           THEN <<ErrValue, 0, None, None>>
           ELSE <<"", PyInt(tokens[1]),
                  IF tokens[2] # "" THEN Some(PyInt(tokens[2])) ELSE None,
                  IF ~vcolor THEN Some(PyInt(tokens[3])) ELSE None>>
      [] OTHER -> <<ErrInvalidFaceVertex, 0, None, None>>

\* parse_face_vertex without the sign check of the normal index.
parse_face_vertex_NoNormalCheck(tokens, vcolor) ==
    LET p == ParseTokens(tokens, vcolor)
        vertex_index == p[2]
        texcoord_index == p[3]
        normal_index == p[4]
    IN  IF p[1] # "" THEN Raise(p[1])
        ELSE IF vertex_index < 0 THEN Raise(ErrNegative)
        ELSE IF texcoord_index # None /\ texcoord_index[1] < 0
        THEN Raise(ErrNegative)
        ELSE Return(<<vertex_index - 1,
                      IF texcoord_index # None
                      THEN Some(texcoord_index[1] - 1) ELSE None,
                      IF normal_index # None
                      THEN Some(normal_index[1] - 1) ELSE None>>)

\* Lines 79-93: the sign checks and the conversion to 0-based.
parse_face_vertex(tokens, vcolor) ==
    LET p == ParseTokens(tokens, vcolor)
        vertex_index == p[2]
        texcoord_index == p[3]
        normal_index == p[4]
    IN  IF p[1] # "" THEN Raise(p[1])
        ELSE IF vertex_index < 0 THEN Raise(ErrNegative)
        ELSE IF texcoord_index # None /\ texcoord_index[1] < 0
        THEN Raise(ErrNegative)
        ELSE IF normal_index # None /\ normal_index[1] < 0
        THEN Raise(ErrNegative)
        ELSE Return(<<vertex_index - 1,
                      IF texcoord_index # None
                      THEN Some(texcoord_index[1] - 1) ELSE None,
                      IF normal_index # None
                      THEN Some(normal_index[1] - 1) ELSE None>>)

----------------------------------------------------------------------------
(* emit_vertex *)

\* The display list under construction is the sequence of the writer calls
\* made on it: [op, args].
Cmd(op, args) == [op |-> op, args |-> args]

EmitOk(dl) == [err |-> "", dl |-> dl]
EmitFail(dl) == [err |-> ErrIndex, dl |-> dl]

\* Variant: v is not flipped.
EmitTexcoordNoFlip(dl, texcoord_idx, tcs, tsize) ==
    IF texcoord_idx = None THEN EmitOk(dl)
    ELSE IF ~PyIndexOk(tcs, texcoord_idx[1]) THEN EmitFail(dl)
    ELSE LET uv == PyIndex(tcs, texcoord_idx[1])
         IN  EmitOk(Append(dl, Cmd("texcoord", <<uv[1] * tsize[1],
                                                 uv[2] * tsize[2]>>)))

\* Lines 286-292: the texcoord lookup, the flip of v and the scaling.
EmitTexcoord(dl, texcoord_idx, tcs, tsize) ==
    IF texcoord_idx = None THEN EmitOk(dl)
    ELSE IF ~PyIndexOk(tcs, texcoord_idx[1]) THEN EmitFail(dl)
    ELSE LET uv == PyIndex(tcs, texcoord_idx[1])
             u == uv[1] * tsize[1]
             v == (4 - uv[2]) * tsize[2]
         IN  EmitOk(Append(dl, Cmd("texcoord", <<u, v>>)))

\* Lines 294-296.
EmitNormal(dl, normal_idx, nrm) ==
    IF normal_idx = None THEN EmitOk(dl)
    ELSE IF ~PyIndexOk(nrm, normal_idx[1]) THEN EmitFail(dl)
    ELSE LET n == PyIndex(nrm, normal_idx[1])
         IN  EmitOk(Append(dl, Cmd("normal", <<n[1], n[2], n[3]>>)))

\* Lines 298-309: translate, then scale; the color of the position record
\* when vertex colors are on; the vertex submit last.
EmitPosition(dl, vertex_idx, vtxs, scale, translation, vcolor) ==
    IF ~PyIndexOk(vtxs, vertex_idx) THEN EmitFail(dl)
    ELSE LET rec == PyIndex(vtxs, vertex_idx)
             vtx == [i \in 1..3 |-> (rec[i] + translation[i]) * scale]
             dl1 == IF vcolor
                    THEN Append(dl, Cmd("color", <<rec[4], rec[5], rec[6]>>))
                    ELSE dl
         IN  EmitOk(Append(dl1, Cmd("vtx", <<vtx[1], vtx[2], vtx[3]>>)))

\* The tables and the transform of one conversion, as emit_vertex gets them.
Env(vtxs, tcs, nrm, tsize, scale, translation, vcolor) ==
    [vertices |-> vtxs, texcoords |-> tcs, normals |-> nrm,
     texture_size |-> tsize, model_scale |-> scale,
     model_translation |-> translation, use_vertex_color |-> vcolor]

\* Variant: the normal is emitted before the texture coordinate.
EmitVertexNormalFirst(dl, key, env) ==
    LET n == EmitNormal(dl, key[3], env.normals)
        t == EmitTexcoord(n.dl, key[2], env.texcoords, env.texture_size)
    IN  IF n.err # "" THEN n
        ELSE IF t.err # "" THEN t
        ELSE EmitPosition(t.dl, key[1], env.vertices, env.model_scale,
                          env.model_translation, env.use_vertex_color)

emit_vertex(dl, key, env) ==
    LET t == EmitTexcoord(dl, key[2], env.texcoords, env.texture_size)
        n == EmitNormal(t.dl, key[3], env.normals)
    IN  IF t.err # "" THEN t
        ELSE IF n.err # "" THEN n
        ELSE EmitPosition(n.dl, key[1], env.vertices, env.model_scale,
                          env.model_translation, env.use_vertex_color)

----------------------------------------------------------------------------
(* Stripification *)

\* Variant: edge_to_faces[edge] is kept as a set and visited in the order of
\* the process's hash table, which differs from one process to the other.
EdgeToFacesHashOrder(faces, n, edge) ==
    LET HasEdge(k) == LET face == faces[(k \div n) + 1]
                          i == k % n
                      IN  {face[i + 1], face[((i + 1) % n) + 1]} = edge
        sel == SelectSeq([k \in 1..(Len(faces) * n) |-> k - 1], HasEdge)
        lst == [j \in 1..Len(sel) |-> sel[j] \div n]
    IN  IF hash_seed = 0 THEN lst
        ELSE [j \in 1..Len(lst) |-> lst[Len(lst) + 1 - j]]

\* Lines 117-121 and 208-212: edge_to_faces[edge], the face indices in the
\* order the two nested loops append them (a face with the edge twice is
\* listed twice).  k = fi * n + i numbers the (face, corner) pairs in the
\* order the loops visit them.
EdgeToFaces(faces, n, edge) ==
    LET HasEdge(k) == LET face == faces[(k \div n) + 1]
                          i == k % n
                      IN  {face[i + 1], face[((i + 1) % n) + 1]} = edge
        sel == SelectSeq([k \in 1..(Len(faces) * n) |-> k - 1], HasEdge)
    IN  [j \in 1..Len(sel) |-> sel[j] \div n]

\* _tri_directed_edge_third returning a corner of the edge in its first case.
_tri_directed_edge_third_WrongCorner(tri, p, q) ==
    LET a == tri[1]
        b == tri[2]
        c == tri[3]
    IN  IF a = p /\ b = q THEN Some(a)
        ELSE IF b = p /\ c = q THEN Some(a)
        ELSE IF c = p /\ a = q THEN Some(b)
        ELSE None

\* Lines 99-105.
_tri_directed_edge_third(tri, p, q) ==
    LET a == tri[1]
        b == tri[2]
        c == tri[3]
    IN  IF a = p /\ b = q THEN Some(c)
        ELSE IF b = p /\ c = q THEN Some(a)
        ELSE IF c = p /\ a = q THEN Some(b)
        ELSE None

\* Variant: the edge p -> q is wanted at every position of the strip.
RECURSIVE TriCandidateNoParity(_, _, _, _, _, _, _)
TriCandidateNoParity(faces, cands, i, local_used, n, p, q) ==
    IF i > Len(cands) THEN None
    ELSE LET cfi == cands[i]
             new_v == _tri_directed_edge_third(faces[cfi + 1], p, q)
         IN  IF cfi \in local_used \/ new_v = None
             THEN TriCandidateNoParity(faces, cands, i + 1, local_used, n, p, q)
             ELSE <<cfi, new_v[1]>>

\* Lines 153-169: the first face of the edge's list, from position i on, that
\* is unused and has the directed edge wanted at strip position n;
\* <<cfi, new_v>>, or None when the for loop ends without a break.
RECURSIVE TriCandidate(_, _, _, _, _, _, _)
TriCandidate(faces, cands, i, local_used, n, p, q) ==
    IF i > Len(cands) THEN None
    ELSE LET cfi == cands[i]
             new_v == IF n % 2 = 0
                      THEN _tri_directed_edge_third(faces[cfi + 1], p, q)
                      ELSE _tri_directed_edge_third(faces[cfi + 1], q, p)
         IN  IF cfi \in local_used \/ new_v = None
             THEN TriCandidate(faces, cands, i + 1, local_used, n, p, q)
             ELSE <<cfi, new_v[1]>>

\* Variant: the loop stops after the first face it has appended.
RECURSIVE ExtendTriOnce(_, _, _, _)
ExtendTriOnce(faces, strip, fcs, local_used) ==
    LET n == Len(fcs)
        p == strip[Len(strip) - 1]
        q == strip[Len(strip)]
        found == TriCandidate(faces, EdgeToFaces(faces, 3, {p, q}), 1,
                              local_used, n, p, q)
    IN  IF found = None \/ n >= 2 THEN [strip |-> strip, faces |-> fcs]
        ELSE ExtendTriOnce(faces, Append(strip, found[2]),
                           Append(fcs, found[1]), local_used \cup {found[1]})

\* Lines 147-172: the while loop that extends the strip forward.
RECURSIVE ExtendTri(_, _, _, _)
ExtendTri(faces, strip, fcs, local_used) ==
    LET n == Len(fcs)
        p == strip[Len(strip) - 1]
        q == strip[Len(strip)]
        found == TriCandidate(faces, EdgeToFaces(faces, 3, {p, q}), 1,
                              local_used, n, p, q)
    IN  IF found = None THEN [strip |-> strip, faces |-> fcs]
        ELSE ExtendTri(faces, Append(strip, found[2]), Append(fcs, found[1]),
                       local_used \cup {found[1]})

\* Lines 137-172: one rotation of the start face.
TriRotation(faces, used0, fi, rot) ==
    LET face == faces[fi + 1]
        a == face[rot + 1]
        b == face[((rot + 1) % 3) + 1]
        c == face[((rot + 2) % 3) + 1]
    IN  ExtendTri(faces, <<a, b, c>>, <<fi>>, used0 \cup {fi})

\* Lines 174-176 and 263-265: keep the chain with more faces, the earlier
\* one on a tie.
Better(best, cand) ==
    IF best = None \/ Len(cand.faces) > Len(best[1].faces)
    THEN Some(cand) ELSE best

\* Variant: only the triangle's own corner order is tried.
BestTriFirstRotation(faces, used0, fi) ==
    TriRotation(faces, used0, fi, 0)

\* Lines 131-176: the best of the 3 rotations.
BestTri(faces, used0, fi) ==
    LET r0 == TriRotation(faces, used0, fi, 0)
        r1 == TriRotation(faces, used0, fi, 1)
        r2 == TriRotation(faces, used0, fi, 2)
        b0 == Better(None, r0)
        b1 == Better(b0, r1)
        b2 == Better(b1, r2)
    IN  b2[1]

\* Lines 247-257: the first rotation ci of the candidate quad that has the
\* directed edge exit_q -> exit_p; the quad rotated there, or None.
RECURSIVE QuadOrientation(_, _, _, _)
QuadOrientation(candidate, ci, exit_p, exit_q) ==
    IF ci >= 4 THEN None
    ELSE IF candidate[ci + 1] = exit_q /\ candidate[((ci + 1) % 4) + 1] = exit_p
    THEN Some([j \in 1..4 |-> candidate[((ci + j - 1) % 4) + 1]])
    ELSE QuadOrientation(candidate, ci + 1, exit_p, exit_q)

\* Lines 242-259: <<cfi, cv>> for the first usable candidate, or None.
RECURSIVE QuadCandidate(_, _, _, _, _, _)
QuadCandidate(faces, cands, i, local_used, exit_p, exit_q) ==
    IF i > Len(cands) THEN None
    ELSE LET cfi == cands[i]
             cv == QuadOrientation(faces[cfi + 1], 0, exit_p, exit_q)
         IN  IF cfi \in local_used \/ cv = None
             THEN QuadCandidate(faces, cands, i + 1, local_used, exit_p, exit_q)
             ELSE <<cfi, cv[1]>>

\* ExtendQuad appending one key per candidate instead of two.
RECURSIVE ExtendQuadOneKey(_, _, _, _, _, _)
ExtendQuadOneKey(faces, strip, fcs, local_used, exit_p, exit_q) ==
    LET found == QuadCandidate(faces,
                               EdgeToFaces(faces, 4, {exit_p, exit_q}), 1,
                               local_used, exit_p, exit_q)
    IN  IF found = None THEN [strip |-> strip, faces |-> fcs]
        ELSE LET cv == found[2]
             IN  ExtendQuadOneKey(faces, Append(strip, cv[4]),
                                  Append(fcs, found[1]),
                                  local_used \cup {found[1]}, cv[3], cv[4])

\* Lines 239-261: the while loop; the candidate adds cv[3], cv[2] (0-based)
\* and the exit edge becomes cv[2] -> cv[3].
RECURSIVE ExtendQuad(_, _, _, _, _, _)
ExtendQuad(faces, strip, fcs, local_used, exit_p, exit_q) ==
    LET found == QuadCandidate(faces,
                               EdgeToFaces(faces, 4, {exit_p, exit_q}), 1,
                               local_used, exit_p, exit_q)
    IN  IF found = None THEN [strip |-> strip, faces |-> fcs]
        ELSE LET cv == found[2]
             IN  ExtendQuad(faces, strip \o <<cv[4], cv[3]>>,
                            Append(fcs, found[1]), local_used \cup {found[1]},
                            cv[3], cv[4])

\* Lines 227-261: one rotation of the start quad: strip v0, v1, v3, v2 and
\* exit edge v2 -> v3.
QuadRotation(faces, used0, fi, rot) ==
    LET quad == faces[fi + 1]
        v == [j \in 1..4 |-> quad[((rot + j - 1) % 4) + 1]]
    IN  ExtendQuad(faces, <<v[1], v[2], v[4], v[3]>>, <<fi>>,
                   used0 \cup {fi}, v[3], v[4])

\* Variant: only the quad's own corner order is tried.
BestQuadFirstRotation(faces, used0, fi) ==
    QuadRotation(faces, used0, fi, 0)

\* Lines 222-265: the best of the 4 rotations.
BestQuad(faces, used0, fi) ==
    LET r0 == QuadRotation(faces, used0, fi, 0)
        r1 == QuadRotation(faces, used0, fi, 1)
        r2 == QuadRotation(faces, used0, fi, 2)
        r3 == QuadRotation(faces, used0, fi, 3)
        b0 == Better(None, r0)
        b1 == Better(b0, r1)
        b2 == Better(b1, r2)
        b3 == Better(b2, r3)
    IN  b3[1]

\* The loop state of a stripifier: used, strips, singles, and with each strip
\* its best_faces (folded), which the code uses to mark the faces and then
\* drops.
StripState(u, st, fo, si) ==
    [used |-> u, strips |-> st, folded |-> fo, singles |-> si]

\* StripIteration marking only the start face as used.
StripIterationStartOnly(best, s, fi) ==
    IF fi \in s.used THEN s
    ELSE StripState(s.used \cup {fi},
                    IF Len(best.faces) >= 2
                    THEN Append(s.strips, best.strip) ELSE s.strips,
                    IF Len(best.faces) >= 2
                    THEN Append(s.folded, best.faces) ELSE s.folded,
                    IF Len(best.faces) >= 2
                    THEN s.singles ELSE Append(s.singles, fi))

\* Lines 127-184 and 218-273: one iteration of the outer loop.
StripIteration(best, s, fi) ==
    IF fi \in s.used THEN s
    ELSE StripState(s.used \cup {best.faces[i] : i \in 1..Len(best.faces)},
                    IF Len(best.faces) >= 2
                    THEN Append(s.strips, best.strip) ELSE s.strips,
                    IF Len(best.faces) >= 2
                    THEN Append(s.folded, best.faces) ELSE s.folded,
                    IF Len(best.faces) >= 2
                    THEN s.singles ELSE Append(s.singles, fi))

StripTriIteration(faces, s, fi) ==
    StripIteration(BestTri(faces, s.used, fi), s, fi)

StripQuadIteration(faces, s, fi) ==
    StripIteration(BestQuad(faces, s.used, fi), s, fi)

RECURSIVE StripTriLoop(_, _, _)
StripTriLoop(faces, s, fi) ==
    IF fi >= Len(faces) THEN s
    ELSE StripTriLoop(faces, StripTriIteration(faces, s, fi), fi + 1)

RECURSIVE StripQuadLoop(_, _, _)
StripQuadLoop(faces, s, fi) ==
    IF fi >= Len(faces) THEN s
    ELSE StripQuadLoop(faces, StripQuadIteration(faces, s, fi), fi + 1)

\* Lines 107-186 and 192-275: the whole functions (an empty list returns at
\* once, with the same result as the loop over no face).
stripify_triangles(resolved_tris_) ==
    StripTriLoop(resolved_tris_, StripState({}, <<>>, <<>>, <<>>), 0)

stripify_quads(resolved_quads_) ==
    StripQuadLoop(resolved_quads_, StripState({}, <<>>, <<>>, <<>>), 0)

----------------------------------------------------------------------------
(* The stripifier specification: a batch is built face by face, then the   *)
(* outer loop runs one start face per step.                                *)

MaxTris == 3
MaxQuads == 2

\* The stripifiers only compare vertex keys, so a key is a number here and
\* the keys of a batch are numbered in the order of their first use.  A face
\* has distinct corners.
TriKeys == 1..5
QuadKeys == 1..6
RECURSIVE MaxKey(_)
MaxKey(keys) ==
    IF keys = <<>> THEN 0
    ELSE LET m == MaxKey(Tail(keys)) IN IF keys[1] > m THEN keys[1] ELSE m

RECURSIVE Flatten(_)
Flatten(faces) ==
    IF faces = <<>> THEN <<>> ELSE faces[1] \o Flatten(Tail(faces))

FirstUseOrder(keys) ==
    \A i \in 1..Len(keys) : keys[i] <= MaxKey(SubSeq(keys, 1, i - 1)) + 1

FaceChoices(faces, n) ==
    {f \in [1..n -> (IF n = 3 THEN TriKeys ELSE QuadKeys)] :
        /\ \A i, j \in 1..n : i # j => f[i] # f[j]
        /\ FirstUseOrder(Flatten(faces) \o f)}

IdleStrip ==
    /\ resolved = <<>>
    /\ arity = 0
    /\ start_fi = 0
    /\ used = {}
    /\ strips = <<>>
    /\ folded = <<>>
    /\ singles = <<>>
    /\ spc = "idle"

InitStrip ==
    /\ resolved = <<>>
    /\ arity \in {3, 4}
    /\ start_fi = 0
    /\ used = {}
    /\ strips = <<>>
    /\ folded = <<>>
    /\ singles = <<>>
    /\ spc = "build"

AddFace ==
    /\ spc = "build"
    /\ Len(resolved) < (IF arity = 3 THEN MaxTris ELSE MaxQuads)
    /\ \E f \in FaceChoices(resolved, arity) : resolved' = Append(resolved, f)
    /\ UNCHANGED <<arity, start_fi, used, strips, folded, singles, spc>>

\* The call: used, strips and singles start empty.
StartStripify ==
    /\ spc = "build"
    /\ spc' = IF resolved = <<>> THEN "done" ELSE "loop"
    /\ UNCHANGED <<resolved, arity, start_fi, used, strips, folded, singles>>

StripStep(s) ==
    /\ used' = s.used
    /\ strips' = s.strips
    /\ folded' = s.folded
    /\ singles' = s.singles
    /\ start_fi' = start_fi + 1
    /\ UNCHANGED <<resolved, arity, spc>>

StripTriStep ==
    /\ spc = "loop"
    /\ arity = 3
    /\ start_fi < Len(resolved)
    /\ \E s \in {StripTriIteration(resolved,
                        StripState(used, strips, folded, singles), start_fi)} :
          StripStep(s)

StripQuadStep ==
    /\ spc = "loop"
    /\ arity = 4
    /\ start_fi < Len(resolved)
    /\ \E s \in {StripQuadIteration(resolved,
                        StripState(used, strips, folded, singles), start_fi)} :
          StripStep(s)

StripReturn ==
    /\ spc = "loop"
    /\ start_fi >= Len(resolved)
    /\ spc' = "done"
    /\ UNCHANGED <<resolved, arity, start_fi, used, strips, folded, singles>>

----------------------------------------------------------------------------
(* Inputs of the vertex specification *)

MaxTable == 2

\* Table entries, all distinct within a table, in quarters.  A position
\* record has 6 fields (position and color) in vertex-color mode.
TexcoordEntry(i) == <<i, (2 * i - 1) % 5>>
NormalEntry(i) == <<4 - i, i, 0>>
VertexEntry(i, six) ==
    IF six THEN <<i, -i, 2 * i, 4, i % 5, 0>> ELSE <<i, -i, 2 * i>>

TexcoordTable(n) == [i \in 1..n |-> TexcoordEntry(i)]
NormalTable(n) == [i \in 1..n |-> NormalEntry(i)]
VertexTable(n, six) == [i \in 1..n |-> VertexEntry(i, six)]

PartChoices == {"-1", "0", "1", "2", "3", "5", "7", "", "x"}
TokenChoices ==
    UNION {[1..n -> PartChoices] : n \in 1..3} \cup {<<"1", "1", "1", "1">>}

TransformChoices ==
    {<<<<64, 64>>, 1, <<0, 0, 0>>>>, <<<<8, 128>>, 2, <<4, -4, 8>>>>}

NoKey == [err |-> "", key |-> <<>>]
NoEmit == [err |-> "", dl |-> <<>>]

IdleTables ==
    /\ vertices = <<>>
    /\ texcoords = <<>>
    /\ normals = <<>>

IdleTransform ==
    /\ texture_size = <<0, 0>>
    /\ model_scale = 1
    /\ model_translation = <<0, 0, 0>>

IdleTok ==
    /\ vertex_str = <<>>
    /\ vk = NoKey
    /\ emitted = NoEmit
    /\ vpc = "idle"

InitVertex ==
    /\ vertex_str \in TokenChoices
    /\ use_vertex_color \in BOOLEAN
    /\ \E n \in 0..MaxTable : vertices = VertexTable(n, use_vertex_color)
    /\ \E n \in 0..MaxTable : texcoords = TexcoordTable(n)
    /\ \E n \in 0..MaxTable : normals = NormalTable(n)
    /\ \E t \in TransformChoices :
         /\ texture_size = t[1]
         /\ model_scale = t[2]
         /\ model_translation = t[3]
    /\ vk = NoKey
    /\ emitted = NoEmit
    /\ vpc = "token"

\* One corner of a face: the token is resolved to a vertex key ...
ParseFaceVertex ==
    /\ vpc = "token"
    /\ vk' = parse_face_vertex(vertex_str, use_vertex_color)
    /\ vpc' = IF vk'.err # "" THEN "failed" ELSE "parsed"
    /\ UNCHANGED <<vertex_str, use_vertex_color, vertices, texcoords, normals,
                   texture_size, model_scale, model_translation, emitted>>

\* ... and the key is emitted into a fresh display list.
EmitVertex ==
    /\ vpc = "parsed"
    /\ emitted' = emit_vertex(<<>>, vk.key,
                     Env(vertices, texcoords, normals, texture_size,
                         model_scale, model_translation, use_vertex_color))
    /\ vpc' = IF emitted'.err # "" THEN "failed" ELSE "emitted"
    /\ UNCHANGED <<vertex_str, use_vertex_color, vertices, texcoords, normals,
                   texture_size, model_scale, model_translation, vk>>

----------------------------------------------------------------------------
(* parse_obj *)

\* float(s), in quarters; any other string raises ValueError.
FloatLiterals == {"0", "0.25", "0.5", "1"}
PyFloatOk(s) == s \in FloatLiterals
PyFloat(s) ==
    CASE s = "0" -> 0 [] s = "0.25" -> 1 [] s = "0.5" -> 2 [] s = "1" -> 4

ErrNoColor == "OBJFormatError: Found vertex with no color info"
ErrUnsupportedVertex == "OBJFormatError: Unsupported vertex command"
ErrPolyline == "OBJFormatError: Unsupported polyline command"

DefaultMaterial == <<"__default__">>

\* Line 468, line.split('#')[0]: a line is its tuple of tokens and a comment
\* starts at the token "#".
RECURSIVE StripComment(_)
StripComment(line) ==
    IF line = <<>> \/ line[1] = "#" THEN <<>>
    ELSE <<line[1]>> \o StripComment(Tail(line))

\* The locals of parse_obj.
ObjState(v, vt, vn, mf, cm, mtl, err) ==
    [vertices |-> v, texcoords |-> vt, normals |-> vn, material_faces |-> mf,
     current_material |-> cm, mtl_file |-> mtl, err |-> err]

\* Lines 459-464.
ObjStart == ObjState(<<>>, <<>>, <<>>, <<>>, DefaultMaterial, None, "")

ObjFail(st, e) == [st EXCEPT !.err = e]

\* The first n tokens converted by float(): None when one is not a number.
Floats(tokens, n) ==
    IF \E i \in 1..n : ~PyFloatOk(tokens[i]) THEN None
    ELSE Some([i \in 1..n |-> PyFloat(tokens[i])])

\* A 'v' line that accepts 6 fields only in vertex-color mode.
VertexLineSixNeedsColor(st, tokens, vcolor) ==
    IF Len(tokens) = 3
    THEN IF vcolor THEN ObjFail(st, ErrNoColor)
         ELSE IF Floats(tokens, 3) = None THEN ObjFail(st, ErrValue)
         ELSE [st EXCEPT !.vertices = Append(@, Floats(tokens, 3)[1])]
    ELSE IF Len(tokens) = 6
    THEN IF ~vcolor THEN ObjFail(st, ErrUnsupportedVertex)
         ELSE IF Floats(tokens, 6) = None THEN ObjFail(st, ErrValue)
         ELSE [st EXCEPT !.vertices = Append(@, Floats(tokens, 6)[1])]
    ELSE ObjFail(st, ErrUnsupportedVertex)

\* Lines 482-491.
VertexLine(st, tokens, vcolor) ==
    IF Len(tokens) = 3
    THEN IF vcolor THEN ObjFail(st, ErrNoColor)
         ELSE IF Floats(tokens, 3) = None THEN ObjFail(st, ErrValue)
         ELSE [st EXCEPT !.vertices = Append(@, Floats(tokens, 3)[1])]
    ELSE IF Len(tokens) = 6
    THEN IF Floats(tokens, 6) = None THEN ObjFail(st, ErrValue)
         ELSE [st EXCEPT !.vertices = Append(@, Floats(tokens, 6)[1])]
    ELSE ObjFail(st, ErrUnsupportedVertex)

\* Lines 493-495: float(tokens[0]), then tokens[1], which may not exist.
TexcoordLine(st, tokens) ==
    IF ~PyFloatOk(tokens[1]) THEN ObjFail(st, ErrValue)
    ELSE IF Len(tokens) < 2 THEN ObjFail(st, ErrIndex)
    ELSE IF ~PyFloatOk(tokens[2]) THEN ObjFail(st, ErrValue)
    ELSE [st EXCEPT !.texcoords =
              Append(@, <<PyFloat(tokens[1]), PyFloat(tokens[2])>>)]

\* Lines 497-499.
NormalLine(st, tokens) ==
    IF ~PyFloatOk(tokens[1]) THEN ObjFail(st, ErrValue)
    ELSE IF Len(tokens) < 2 THEN ObjFail(st, ErrIndex)
    ELSE IF ~PyFloatOk(tokens[2]) THEN ObjFail(st, ErrValue)
    ELSE IF Len(tokens) < 3 THEN ObjFail(st, ErrIndex)
    ELSE IF ~PyFloatOk(tokens[3]) THEN ObjFail(st, ErrValue)
    ELSE [st EXCEPT !.normals =
              Append(@, <<PyFloat(tokens[1]), PyFloat(tokens[2]),
                          PyFloat(tokens[3])>>)]

\* material_faces[name].append(face) on a defaultdict(list): a new name is
\* inserted at the end.
FaceLineOtherMaterial(mf, name, face) ==
    IF mf = <<>> THEN <<<<name, <<face>>>>>>
    ELSE [mf EXCEPT ![1] = <<@[1], Append(@[2], face)>>]

\* Lines 501-502.
\* Variant: a new material is put before the others.
FaceLinePrepend(mf, name, face) ==
    IF \E i \in 1..Len(mf) : mf[i][1] = name
    THEN [i \in 1..Len(mf) |->
              IF mf[i][1] = name THEN <<name, Append(mf[i][2], face)>>
              ELSE mf[i]]
    ELSE <<<<name, <<face>>>>>> \o mf

FaceLine(mf, name, face) ==
    IF \E i \in 1..Len(mf) : mf[i][1] = name
    THEN [i \in 1..Len(mf) |->
              IF mf[i][1] = name THEN <<name, Append(mf[i][2], face)>>
              ELSE mf[i]]
    ELSE Append(mf, <<name, <<face>>>>)

\* Lines 467-508: one line of the file.
ParseObjLine(st, raw, vcolor) ==
    LET line == StripComment(raw)
        cmd == line[1]
        tokens == Tail(line)
    IN  IF Len(line) < 2 THEN st
        ELSE CASE cmd = "mtllib" -> [st EXCEPT !.mtl_file = Some(tokens[1])]
               [] cmd = "usemtl" -> [st EXCEPT !.current_material = tokens]
               [] cmd = "v" -> VertexLine(st, tokens, vcolor)
               [] cmd = "vt" -> TexcoordLine(st, tokens)
               [] cmd = "vn" -> NormalLine(st, tokens)
               [] cmd = "f" ->
                    [st EXCEPT !.material_faces =
                         FaceLine(@, st.current_material, tokens)]
               [] cmd = "l" -> ObjFail(st, ErrPolyline)
               [] OTHER -> st

\* The loop over a whole file: it stops at the first exception.
RECURSIVE ParseObjLines(_, _, _)
ParseObjLines(st, lines, vcolor) ==
    IF lines = <<>> \/ st.err # "" THEN st
    ELSE ParseObjLines(ParseObjLine(st, lines[1], vcolor), Tail(lines), vcolor)

----------------------------------------------------------------------------
(* The parse_obj specification: the lines of the file are read one per     *)
(* step, after a first part of the file drawn from FileStarts.             *)

MaxLines == 3

VertexFields == <<"0.5", "1", "0", "0.25", "1", "0", "0.5">>

LineChoices ==
    {<<"v">> \o SubSeq(VertexFields, 1, k) : k \in 0..7}
    \cup {<<"v", "x", "0", "0">>,
          <<"vt", "0.25", "0.25">>, <<"vt", "1">>,
          <<"vn", "0", "0", "1">>,
          <<"f", "1", "2", "3">>,
          <<"f", "3/1", "2/1", "1/1", "4/1", "#", "usemtl", "B">>,
          <<"usemtl", "A">>, <<"usemtl", "B">>, <<"usemtl">>,
          <<"mtllib", "m.mtl">>,
          <<"l", "1", "2">>,
          <<"g", "A">>,
          <<"#", "usemtl", "B">>}

FileStarts ==
    {<<>>,
     <<<<"usemtl", "A">>, <<"f", "1", "2", "3">>,
       <<"usemtl", "B">>, <<"f", "2", "3", "4">>>>}

\* A file is one of the starts followed by at most MaxLines lines.
StartLenOf(starts, file) ==
    LET lens == {Len(s) : s \in {s \in starts :
                     Len(s) <= Len(file) /\ SubSeq(file, 1, Len(s)) = s}}
    IN  CHOOSE n \in lens : \A m \in lens : m <= n

StartLen(file) == StartLenOf(FileStarts, file)

IdleObj ==
    /\ obj_file = <<>>
    /\ material_faces = <<>>
    /\ current_material = DefaultMaterial
    /\ mtl_file = None
    /\ oerr = ""
    /\ opc = "idle"

InitObjFrom(starts, vcolors) ==
    /\ use_vertex_color \in vcolors
    /\ IdleTransform
    /\ obj_file \in starts
    /\ \E st \in {ParseObjLines(ObjStart, obj_file, use_vertex_color)} :
         /\ vertices = st.vertices
         /\ texcoords = st.texcoords
         /\ normals = st.normals
         /\ material_faces = st.material_faces
         /\ current_material = st.current_material
         /\ mtl_file = st.mtl_file
         /\ oerr = st.err
    /\ opc = "reading"

InitObj == InitObjFrom(FileStarts, BOOLEAN)

\* The next line of the file.
ReadLineOf(choices, start_len) ==
    /\ opc = "reading"
    /\ Len(obj_file) < start_len + MaxLines
    /\ \E line \in choices :
         /\ obj_file' = Append(obj_file, line)
         /\ \E st \in {ParseObjLine(
                          ObjState(vertices, texcoords, normals, material_faces,
                                   current_material, mtl_file, oerr),
                          line, use_vertex_color)} :
              /\ vertices' = st.vertices
              /\ texcoords' = st.texcoords
              /\ normals' = st.normals
              /\ material_faces' = st.material_faces
              /\ current_material' = st.current_material
              /\ mtl_file' = st.mtl_file
              /\ oerr' = st.err
              /\ opc' = IF st.err # "" THEN "failed" ELSE "reading"
    /\ UNCHANGED <<use_vertex_color, texture_size, model_scale,
                   model_translation>>

ReadLine == ReadLineOf(LineChoices, StartLen(obj_file))

\* The end of the file: line 510.
ParseObjReturn ==
    /\ opc = "reading"
    /\ opc' = "returned"
    /\ UNCHANGED <<varsEnv, obj_file, material_faces, current_material,
                   mtl_file, oerr>>

----------------------------------------------------------------------------
(* save_dlmm.  A file is its sequence of bytes; a string is its sequence   *)
(* of code points; sub.dl is the byte string that get_binary() returns.    *)

DLMM_MAGIC == 1296911428
DLMM_VERSION == 1
DLMM_SUBMESH_HEADER_SIZE == 56

\* struct.pack('<I', x) and struct.pack('<H', x).
PackU32(x) ==
    <<x % 256, (x \div 256) % 256, (x \div 65536) % 256,
      (x \div 16777216) % 256>>

PackU16(x) == <<x % 256, (x \div 256) % 256>>

RECURSIVE Concat(_)
Concat(seqs) == IF seqs = <<>> THEN <<>> ELSE seqs[1] \o Concat(Tail(seqs))

\* Line 406.
HeaderSize(num) == 12 + DLMM_SUBMESH_HEADER_SIZE * num

\* Offsets that all start at the end of the headers.
DlOffsetsNoSum(offset, dl_binaries) ==
    [i \in 1..Len(dl_binaries) |-> offset]

\* Lines 414-418: the running sum of the payload lengths.
RECURSIVE DlOffsets(_, _)
DlOffsets(offset, dl_binaries) ==
    IF dl_binaries = <<>> THEN <<>>
    ELSE <<offset>> \o DlOffsets(offset + Len(dl_binaries[1]),
                                 Tail(dl_binaries))

\* name.encode('ascii', errors='replace'): a '?' for every other character.
EncodeAscii(name) ==
    [i \in 1..Len(name) |-> IF name[i] < 128 THEN name[i] ELSE 63]

\* A name slot that keeps 32 bytes of the name.
NameBytesNoTerminator(name) ==
    LET enc == EncodeAscii(name)
        name_bytes == SubSeq(enc, 1, IF Len(enc) < 32 THEN Len(enc) ELSE 32)
    IN  name_bytes \o [i \in 1..(32 - Len(name_bytes)) |-> 0]

\* Lines 431-432.
NameBytes(name) ==
    LET enc == EncodeAscii(name)
        name_bytes == SubSeq(enc, 1, IF Len(enc) < 31 THEN Len(enc) ELSE 31)
    IN  name_bytes \o [i \in 1..(32 - Len(name_bytes)) |-> 0]

\* Lines 425-441: the header of one submesh.
SubmeshHeader(sub, offset, dl_bin) ==
    LET flags == IF sub.has_texture THEN 1 ELSE 0
    IN  PackU32(offset) \o PackU32(Len(dl_bin))
        \o PackU32(sub.diffuse_ambient) \o PackU32(sub.specular_emission)
        \o PackU32(sub.color)
        \o PackU16(sub.alpha) \o PackU16(flags)
        \o NameBytes(sub.name)

\* Lines 405-445: the bytes of the file.
DlmmBytes(subs) ==
    LET num == Len(subs)
        header_size == HeaderSize(num)
        dl_binaries == [i \in 1..num |-> subs[i].dl]
        dl_offsets == DlOffsets(header_size, dl_binaries)
    IN  PackU32(DLMM_MAGIC) \o PackU32(DLMM_VERSION) \o PackU32(num)
        \o Concat([i \in 1..num |->
                      SubmeshHeader(subs[i], dl_offsets[i], dl_binaries[i])])
        \o Concat(dl_binaries)

----------------------------------------------------------------------------
(* The save_dlmm specification: a list of submeshes is built, then saved.  *)

MaxSubmeshes == 2
MaxPayload == 2

\* One byte string of every length, each byte telling its place.
PayloadChoices ==
    {[j \in 1..len |-> 16 * len + j] : len \in 0..MaxPayload}

Letters(n) == [i \in 1..n |-> 65 + (i % 26)]

\* "M", "éB", "A\0B" and names of 31, 32 and 33 letters.
NameChoices ==
    {<<77>>, <<233, 66>>, <<65, 0, 66>>, Letters(31), Letters(32), Letters(33)}

\* The packed fields of the default material and of a textured one.
FieldChoices ==
    {[diffuse_ambient |-> 32767, specular_emission |-> 0, color |-> 32767,
      alpha |-> 31, has_texture |-> FALSE],
     [diffuse_ambient |-> 2147450880, specular_emission |-> 66047,
      color |-> 31, alpha |-> 15, has_texture |-> TRUE]}

SubmeshChoices ==
    {[name |-> nm, dl |-> bin, diffuse_ambient |-> fl.diffuse_ambient,
      specular_emission |-> fl.specular_emission, color |-> fl.color,
      alpha |-> fl.alpha, has_texture |-> fl.has_texture] :
        nm \in NameChoices, bin \in PayloadChoices, fl \in FieldChoices}

IdleDlmm ==
    /\ submeshes = <<>>
    /\ output_file = None
    /\ dpc = "idle"

InitDlmm ==
    /\ submeshes = <<>>
    /\ output_file = None
    /\ dpc = "build"

\* The caller appends a submesh to the list.
AddSubmesh ==
    /\ dpc = "build"
    /\ Len(submeshes) < MaxSubmeshes
    /\ \E sub \in SubmeshChoices : submeshes' = Append(submeshes, sub)
    /\ UNCHANGED <<output_file, dpc>>

\* save_dlmm(output_file, submeshes).
SaveDlmm ==
    /\ dpc = "build"
    /\ output_file' = Some(DlmmBytes(submeshes))
    /\ dpc' = "saved"
    /\ UNCHANGED submeshes

----------------------------------------------------------------------------
(* mtl_parser: the packed colour fields.  A colour channel is a float in   *)
(* quarters.                                                               *)

\* int(x * 31) for x = q/4: truncation toward zero.
IntTimes31(q) == IF q >= 0 THEN (31 * q) \div 4 ELSE -((31 * (-q)) \div 4)

Clamp31(x) == IF x < 0 THEN 0 ELSE IF x > 31 THEN 31 ELSE x

\* Variant: the channels are not clamped.
FloatToRgb15Unclamped(r, g, b) ==
    IntTimes31(r) + 32 * IntTimes31(g) + 1024 * IntTimes31(b)

float_to_rgb15(r, g, b) ==
    LET ri == Clamp31(IntTimes31(r))
        gi == Clamp31(IntTimes31(g))
        bi == Clamp31(IntTimes31(b))
    IN  ri + 32 * gi + 1024 * bi

pack_diffuse_ambient(kd, ka, vtxcolor) ==
    LET diffuse == float_to_rgb15(kd[1], kd[2], kd[3])
        ambient == float_to_rgb15(ka[1], ka[2], ka[3])
        val == diffuse + 65536 * ambient
    IN  IF vtxcolor THEN val + 32768 ELSE val

pack_specular_emission(ks, ke, use_shininess) ==
    LET specular == float_to_rgb15(ks[1], ks[2], ks[3])
        emission == float_to_rgb15(ke[1], ke[2], ke[3])
        val == specular + 65536 * emission
    IN  IF use_shininess THEN val + 32768 ELSE val

\* The channels drawn: -0.5, 0, 0.25, 0.5, 1, 1.5 for the first colour and
\* 0, 0.5, 1, 2 for the second.
FirstChannels == {-2, 0, 1, 2, 4, 6}

SecondChannels == {0, 2, 4, 8}

IdlePack ==
    /\ first_color = <<0, 0, 0>>
    /\ second_color = <<0, 0, 0>>
    /\ flag = FALSE
    /\ packed = None
    /\ kpc = "idle"

InitPack ==
    /\ first_color \in FirstChannels \X FirstChannels \X FirstChannels
    /\ second_color \in SecondChannels \X SecondChannels \X SecondChannels
    /\ flag \in BOOLEAN
    /\ packed = None
    /\ kpc = "args"

\* pack_diffuse_ambient and pack_specular_emission, called on the same
\* arguments.
PackColors ==
    /\ kpc = "args"
    /\ packed' = Some([diffuse_ambient |->
                           pack_diffuse_ambient(first_color, second_color, flag),
                       specular_emission |->
                           pack_specular_emission(first_color, second_color,
                                                  flag)])
    /\ kpc' = "packed"
    /\ UNCHANGED <<first_color, second_color, flag>>

----------------------------------------------------------------------------
(* generate_display_list.  A display list is the sequence of the calls     *)
(* made on the DisplayList object.                                         *)

RECURSIVE EmitAll(_, _, _)
EmitAll(r, keys, env) ==
    IF r.err # "" \/ keys = <<>> THEN r
    ELSE EmitAll(emit_vertex(r.dl, keys[1], env), Tail(keys), env)

\* Lines 347-352 and 364-369: one block per strip.
RECURSIVE EmitStrips(_, _, _, _)
EmitStrips(r, type, strip_list, env) ==
    IF r.err # "" \/ strip_list = <<>> THEN r
    ELSE LET b == EmitAll(EmitOk(Append(r.dl, Cmd("begin_vtxs", <<type>>))),
                          strip_list[1], env)
         IN  EmitStrips(
                 IF b.err # "" THEN b
                 ELSE EmitOk(Append(b.dl, Cmd("end_vtxs", <<>>))),
                 type, Tail(strip_list), env)

\* Variant: the block of the separate faces is opened even when there is
\* none.
EmitSinglesUnguarded(r, type, single_list, faces, env) ==
    IF r.err # "" THEN r
    ELSE LET keys == Concat([i \in 1..Len(single_list) |->
                                faces[single_list[i] + 1]])
             b == EmitAll(EmitOk(Append(r.dl, Cmd("begin_vtxs", <<type>>))),
                          keys, env)
         IN  IF b.err # "" THEN b
             ELSE EmitOk(Append(b.dl, Cmd("end_vtxs", <<>>)))

\* Lines 355-361 and 372-378: one block for all the separate faces, with
\* the corners of each face in their original order.
EmitSingles(r, type, single_list, faces, env) ==
    IF r.err # "" \/ single_list = <<>> THEN r
    ELSE LET keys == Concat([i \in 1..Len(single_list) |->
                                faces[single_list[i] + 1]])
             b == EmitAll(EmitOk(Append(r.dl, Cmd("begin_vtxs", <<type>>))),
                          keys, env)
         IN  IF b.err # "" THEN b
             ELSE EmitOk(Append(b.dl, Cmd("end_vtxs", <<>>)))

\* Lines 322-327: the strips and the separate faces of a batch.
NoStrips(faces) ==
    [strips |-> <<>>, singles |-> [i \in 1..Len(faces) |-> i - 1]]

\* The calls of the stripifiers that generate_display_list makes.
StripCalls(resolved_tris_, resolved_quads_, nostrip) ==
    IF nostrip THEN <<>>
    ELSE <<<<"stripify_triangles", resolved_tris_>>,
           <<"stripify_quads", resolved_quads_>>>>

\* Variant: the separate triangles come before the triangle strips.
GenerateSinglesFirst(resolved_tris_, resolved_quads_, env, nostrip) ==
    LET tri == IF nostrip THEN NoStrips(resolved_tris_)
               ELSE stripify_triangles(resolved_tris_)
        quad == IF nostrip THEN NoStrips(resolved_quads_)
                ELSE stripify_quads(resolved_quads_)
        a == EmitSingles(EmitOk(<<>>), "triangles", tri.singles,
                         resolved_tris_, env)
        b == EmitStrips(a, "triangle_strip", tri.strips, env)
        c == EmitStrips(b, "quad_strip", quad.strips, env)
        d == EmitSingles(c, "quads", quad.singles, resolved_quads_, env)
    IN  IF d.err # "" THEN d
        ELSE EmitOk(Append(d.dl, Cmd("finalize", <<>>)))

generate_display_list(resolved_tris_, resolved_quads_, env, nostrip) ==
    LET tri == IF nostrip THEN NoStrips(resolved_tris_)
               ELSE stripify_triangles(resolved_tris_)
        quad == IF nostrip THEN NoStrips(resolved_quads_)
                ELSE stripify_quads(resolved_quads_)
        a == EmitStrips(EmitOk(<<>>), "triangle_strip", tri.strips, env)
        b == EmitSingles(a, "triangles", tri.singles, resolved_tris_, env)
        c == EmitStrips(b, "quad_strip", quad.strips, env)
        d == EmitSingles(c, "quads", quad.singles, resolved_quads_, env)
    IN  IF d.err # "" THEN d
        ELSE EmitOk(Append(d.dl, Cmd("finalize", <<>>)))

----------------------------------------------------------------------------
(* convert_obj, after parse_obj has returned.  The material library is the *)
(* table parse_mtl returns for it, a list of <<name, properties>>; the     *)
(* images on disk are a function from file name to measured size.         *)

ErrUnsupportedPolygons == "OBJFormatError: Unsupported polygons"

NoError == [kind |-> "", arity |-> 0, material |-> None]
ArityError(n, mat) ==
    [kind |-> ErrUnsupportedPolygons, arity |-> n, material |-> mat]
OtherError(e) == [kind |-> e, arity |-> 0, material |-> None]

NotWritten == [format |-> "", content |-> <<>>]

\* An arity test that lets pentagons through.
ArityOkPentagon(n) == n = 3 \/ n = 4 \/ n = 5

\* Lines 560 and 593.
ArityOk(n) == n = 3 \/ n = 4

\* Line 60: vertex_str.split('/').  Of the corner tokens used, these have a
\* '/'.
SplitSlash(vertex_str_) ==
    CASE vertex_str_ = "1/1" -> <<"1", "1">>
      [] vertex_str_ = "2/1" -> <<"2", "1">>
      [] vertex_str_ = "3/1" -> <<"3", "1">>
      [] vertex_str_ = "4/1" -> <<"4", "1">>
      [] OTHER -> <<vertex_str_>>

\* Lines 565 and 598: the corners in order, up to the first exception.
RECURSIVE ResolveCorners(_, _)
ResolveCorners(face, vcolor) ==
    IF face = <<>> THEN [err |-> "", keys |-> <<>>]
    ELSE LET k == parse_face_vertex(SplitSlash(face[1]), vcolor)
         IN  IF k.err # "" THEN [err |-> k.err, keys |-> <<>>]
             ELSE LET rest == ResolveCorners(Tail(face), vcolor)
                  IN  IF rest.err # "" THEN rest
                      ELSE [err |-> "", keys |-> <<k.key>> \o rest.keys]

\* Lines 559-565 and 592-598; mat is None on the legacy path.
ResolveFace(face, mat, vcolor) ==
    LET n == Len(face)
        r == ResolveCorners(face, vcolor)
    IN  IF ~ArityOk(n) THEN [err |-> ArityError(n, mat), keys |-> <<>>]
        ELSE IF r.err # "" THEN [err |-> OtherError(r.err), keys |-> <<>>]
        ELSE [err |-> NoError, keys |-> r.keys]

\* Variant: the multi-material path is taken for a single material too.
UseMultiAnyCount(multi, mf) == multi /\ Len(mf) > 0

\* Line 544.
UseMulti(multi, mf) == multi /\ Len(mf) > 1

\* Lines 548-550.
AllFaces(mf) == Concat([i \in 1..Len(mf) |-> mf[i][2]])

\* dict.get(key, default) on a record of material properties.
Get(props, key, default) ==
    IF key \in DOMAIN props THEN props[key] ELSE default

VALID_TEXTURE_SIZES == {8, 16, 32, 64, 128, 256, 512, 1024}

\* A float that may be non-finite: q counts quarters when finite, and is
\* the sign of the infinity (0 for NaN) otherwise.
Float(q) == [finite |-> TRUE, q |-> q]
PosInf == [finite |-> FALSE, q |-> 1]

\* materials.get(mat_name, {}) on the empty table.
NoProps == [k \in {} |-> None]

\* Line 605: materials.get(mat_name, {}).
MaterialsGet(table, mat_name) ==
    IF \E i \in 1..Len(table) : table[i][1] = mat_name
    THEN table[CHOOSE i \in 1..Len(table) : table[i][1] = mat_name][2]
    ELSE NoProps

\* Lines 609-611: None when the file does not exist.
ImageDims(images, name) ==
    IF name \in DOMAIN images THEN Some(images[name]) ELSE None

\* Variant: one valid dimension is enough for the measured size to be used.
MatTexSizeEitherValid(mat_props, image, tsize) ==
    LET map_kd == Get(mat_props, "map_Kd", None)
    IN  IF map_kd = None \/ map_kd = Some("") \/ image = None THEN tsize
        ELSE IF image[1][1] \in VALID_TEXTURE_SIZES
                \/ image[1][2] \in VALID_TEXTURE_SIZES
        THEN image[1]
        ELSE tsize

\* Lines 605-619: image is None when the texture file does not exist, or
\* Some of its measured size.
MatTexSize(mat_props, image, tsize) ==
    LET map_kd == Get(mat_props, "map_Kd", None)
    IN  IF map_kd = None \/ map_kd = Some("") \/ image = None THEN tsize
        ELSE IF image[1][1] \in VALID_TEXTURE_SIZES
                /\ image[1][2] \in VALID_TEXTURE_SIZES
        THEN image[1]
        ELSE tsize

\* Lines 630 and 639, for a finite alpha counted in quarters.
AlphaOf(d) == Clamp31(IntTimes31(d))

\* Line 639: int(alpha * 31) raises on a float that is not finite.
AlphaErr(alpha) ==
    IF alpha.finite THEN ""
    ELSE IF alpha.q = 0 THEN "ValueError" ELSE "OverflowError"

\* Variant: a material without a Kd is black.
SubmeshBlackDefault(mat_name, dl, mat_props) ==
    LET kd == Get(mat_props, "Kd", <<0, 0, 0>>)
        ka == Get(mat_props, "Ka", <<0, 0, 0>>)
        ks == Get(mat_props, "Ks", <<0, 0, 0>>)
        ke == Get(mat_props, "Ke", <<0, 0, 0>>)
        alpha == Get(mat_props, "d", Float(4))
    IN  [name |-> mat_name, dl |-> dl,
         diffuse_ambient |-> pack_diffuse_ambient(kd, ka, FALSE),
         specular_emission |-> pack_specular_emission(ks, ke, FALSE),
         color |-> float_to_rgb15(kd[1], kd[2], kd[3]),
         alpha |-> AlphaOf(alpha.q),
         has_texture |-> Get(mat_props, "map_Kd", None) # None]

\* Variant: the vertex-colour flag is handed to pack_diffuse_ambient.
SubmeshVertexColorBit(mat_name, dl, mat_props) ==
    LET kd == Get(mat_props, "Kd", <<4, 4, 4>>)
        ka == Get(mat_props, "Ka", <<0, 0, 0>>)
        ks == Get(mat_props, "Ks", <<0, 0, 0>>)
        ke == Get(mat_props, "Ke", <<0, 0, 0>>)
        alpha == Get(mat_props, "d", Float(4))
    IN  [name |-> mat_name, dl |-> dl,
         diffuse_ambient |-> pack_diffuse_ambient(kd, ka, use_vertex_color),
         specular_emission |-> pack_specular_emission(ks, ke, FALSE),
         color |-> float_to_rgb15(kd[1], kd[2], kd[3]),
         alpha |-> AlphaOf(alpha.q),
         has_texture |-> Get(mat_props, "map_Kd", None) # None]

\* Lines 626-641, when line 639 does not raise.
Submesh(mat_name, dl, mat_props) ==
    LET kd == Get(mat_props, "Kd", <<4, 4, 4>>)
        ka == Get(mat_props, "Ka", <<0, 0, 0>>)
        ks == Get(mat_props, "Ks", <<0, 0, 0>>)
        ke == Get(mat_props, "Ke", <<0, 0, 0>>)
        alpha == Get(mat_props, "d", Float(4))
    IN  [name |-> mat_name, dl |-> dl,
         diffuse_ambient |-> pack_diffuse_ambient(kd, ka, FALSE),
         specular_emission |-> pack_specular_emission(ks, ke, FALSE),
         color |-> float_to_rgb15(kd[1], kd[2], kd[3]),
         alpha |-> AlphaOf(alpha.q),
         has_texture |-> Get(mat_props, "map_Kd", None) # None]

\* Lines 604-619: the texture size of a material's batch.
BatchTexSize(mat_props, images, tsize) ==
    LET map_kd == Get(mat_props, "map_Kd", None)
        image == IF map_kd = None THEN None ELSE ImageDims(images, map_kd[1])
    IN  MatTexSize(mat_props, image, tsize)

----------------------------------------------------------------------------
(* The convert_obj specification: the faces that parse_obj returned are    *)
(* drawn one by one, then the conversion runs one face or one batch per    *)
(* step.                                                                   *)

MaxFaces == 3

\* Two triangles that share an edge, a quad with texture coordinates, faces
\* of 2 and 5 corners, a triangle with a negative index and one with an
\* index past the table.
ConvFaceChoices ==
    {<<"1", "2", "3">>,
     <<"2", "1", "3">>,
     <<"1/1", "2/1", "3/1", "2/1">>,
     <<"1", "2">>,
     <<"1", "2", "3", "1", "2">>,
     <<"1", "-1", "2">>,
     <<"1", "2", "7">>}

MaterialNames ==
    <<DefaultMaterial, <<"A">>, <<"B">>, <<"C">>, <<"D">>, <<"E">>>>

\* What parse_mtl gives a material declared by newmtl alone.
MtlDefaults ==
    [Kd |-> <<4, 4, 4>>, Ka |-> <<0, 0, 0>>, Ks |-> <<0, 0, 0>>,
     Ke |-> <<0, 0, 0>>, d |-> Float(4), map_Kd |-> None]

\* A: Kd 0.5 0.25 1, Ka 1 0 0, d 0.5, map_Kd a.png; B: d 1.5, map_Kd b.png.
LibraryTextured ==
    <<<<<<"A">>, [MtlDefaults EXCEPT !.Kd = <<2, 1, 4>>, !.Ka = <<4, 0, 0>>,
                                     !.d = Float(2),
                                     !.map_Kd = Some("a.png")]>>,
      <<<<"B">>, [MtlDefaults EXCEPT !.d = Float(6),
                                     !.map_Kd = Some("b.png")]>>>>

\* A: d -0.5; B: d 0.25, Ks 1 1 1.
LibraryDissolve ==
    <<<<<<"A">>, [MtlDefaults EXCEPT !.d = Float(-2)]>>,
      <<<<"B">>, [MtlDefaults EXCEPT !.d = Float(1), !.Ks = <<4, 4, 4>>]>>>>

\* A: d inf.
LibraryInfinite == <<<<<<"A">>, [MtlDefaults EXCEPT !.d = PosInf]>>>>

NoImages == [n \in {} |-> <<0, 0>>]

\* a.png is 128 x 32, b.png is 100 x 64.
ImagesMixed == [n \in {"a.png", "b.png"} |->
                   IF n = "a.png" THEN <<128, 32>> ELSE <<100, 64>>]

\* a.png does not exist, b.png is 8 x 1024.
ImagesOneMissing == [n \in {"b.png"} |-> <<8, 1024>>]

NoFiles == [mtl |-> None, images |-> NoImages]

FilesChoices ==
    {NoFiles,
     [mtl |-> Some(LibraryTextured), images |-> ImagesMixed],
     [mtl |-> Some(LibraryTextured), images |-> ImagesOneMissing],
     [mtl |-> Some(LibraryDissolve), images |-> NoImages],
     [mtl |-> Some(LibraryInfinite), images |-> NoImages]}

Config(multi, nostrip, texture, mtl, fs) ==
    [multi |-> multi, no_strip |-> nostrip, texture |-> texture, mtl |-> mtl,
     files |-> fs]

\* The command lines: both modes with and without strips and no library;
\* multi-material mode with a library referenced; multi-material mode
\* without --texture; and the command lines main rejects.
ConvConfigs ==
    {Config(m, n, Some(<<64, 64>>), None, NoFiles) : m, n \in BOOLEAN}
    \cup {Config(TRUE, FALSE, Some(<<64, 64>>), Some("m.mtl"), f) :
              f \in FilesChoices}
    \cup {Config(TRUE, FALSE, None, None, NoFiles),
          Config(TRUE, FALSE, None, Some("m.mtl"),
                 [mtl |-> Some(LibraryTextured), images |-> ImagesMixed])}
    \cup {Config(TRUE, FALSE, Some(t), None, NoFiles) :
              t \in {<<64>>, <<100, 64>>, <<64, 100>>}}
    \cup {Config(FALSE, FALSE, None, None, NoFiles)}

NumFaces(mf) == Len(AllFaces(mf))

IdleConv ==
    /\ multi_material = FALSE
    /\ no_strip = FALSE
    /\ mat_index = 0
    /\ face_index = 0
    /\ resolved_tris = <<>>
    /\ resolved_quads = <<>>
    /\ strip_calls = <<>>
    /\ cerr = NoError
    /\ written = NotWritten
    /\ cpc = "idle"
    /\ args_texture = None
    /\ files = NoFiles
    /\ materials = <<>>
    /\ tex_sizes = <<>>

InitConv ==
    /\ \E c \in ConvConfigs :
         /\ multi_material = c.multi
         /\ no_strip = c.no_strip
         /\ args_texture = c.texture
         /\ mtl_file = c.mtl
         /\ files = c.files
    /\ materials = <<>>
    /\ tex_sizes = <<>>
    /\ mat_index = 0
    /\ face_index = 0
    /\ resolved_tris = <<>>
    /\ resolved_quads = <<>>
    /\ strip_calls = <<>>
    /\ cerr = NoError
    /\ written = NotWritten
    /\ cpc = "main"
    /\ use_vertex_color = FALSE
    /\ vertices = VertexTable(3, FALSE)
    /\ texcoords = TexcoordTable(1)
    /\ normals = NormalTable(1)
    /\ texture_size = <<0, 0>>
    /\ model_scale = 1
    /\ model_translation = <<0, 0, 0>>
    /\ obj_file = <<>>
    /\ material_faces = <<>>
    /\ current_material = DefaultMaterial
    /\ oerr = ""
    /\ opc = "returned"
    /\ submeshes = <<>>
    /\ output_file = None
    /\ dpc = "idle"

\* Line 19.
is_valid_texture_size(size) == size \in VALID_TEXTURE_SIZES

\* Lines 690-714 of the command-line entry point: the texture size handed
\* to convert_obj, or sys.exit(1).
Main ==
    /\ cpc = "main"
    /\ IF args_texture # None
          /\ (\/ Len(args_texture[1]) # 2
              \/ ~is_valid_texture_size(args_texture[1][1])
              \/ ~is_valid_texture_size(args_texture[1][2]))
       THEN cpc' = "exit" /\ UNCHANGED texture_size
       ELSE IF args_texture = None /\ ~multi_material
       THEN cpc' = "exit" /\ UNCHANGED texture_size
       ELSE IF Len(model_translation) # 3
       THEN cpc' = "exit" /\ UNCHANGED texture_size
       ELSE /\ texture_size' =
                  IF args_texture = None THEN <<0, 0>> ELSE args_texture[1]
            /\ cpc' = "build"
    /\ UNCHANGED <<use_vertex_color, vertices, texcoords, normals, model_scale,
                   model_translation, varsObj, varsDlmm, multi_material,
                   no_strip, mat_index, face_index, resolved_tris,
                   resolved_quads, strip_calls, cerr, written, args_texture,
                   files, materials, tex_sizes>>

\* One more face in the result of parse_obj, of the last material or of a
\* new one.
ParsedFace ==
    /\ cpc = "build"
    /\ NumFaces(material_faces) < MaxFaces
    /\ Len(material_faces) < Len(MaterialNames)
    /\ \E face \in ConvFaceChoices, new \in BOOLEAN :
         material_faces' =
             IF new \/ material_faces = <<>>
             THEN Append(material_faces,
                         <<MaterialNames[Len(material_faces) + 1], <<face>>>>)
             ELSE [material_faces EXCEPT ![Len(material_faces)] =
                       <<@[1], Append(@[2], face)>>]
    /\ UNCHANGED <<varsEnv, obj_file, current_material, mtl_file, oerr, opc,
                   varsDlmm, varsConv>>

\* Lines 529-541, then lines 544-556 on the legacy path, lines 582-590 on
\* the other.
StartConvert ==
    /\ cpc = "build"
    /\ opc = "returned"
    /\ cpc' = "resolve"
    /\ materials' = IF mtl_file # None /\ files.mtl # None
                    THEN files.mtl[1]
                    ELSE <<>>
    /\ mat_index' = IF UseMulti(multi_material, material_faces) THEN 1 ELSE 0
    /\ UNCHANGED <<varsEnv, varsObj, varsDlmm, multi_material, no_strip,
                   face_index, resolved_tris, resolved_quads, strip_calls,
                   cerr, written, args_texture, files, tex_sizes>>

\* Variant: a material's batch also holds the faces of the materials before
\* it.
CurrentFacesCumulative ==
    IF mat_index = 0 THEN AllFaces(material_faces)
    ELSE Concat([i \in 1..mat_index |-> material_faces[i][2]])

\* The list of the loop of line 558 or of line 591.
CurrentFaces ==
    IF mat_index = 0 THEN AllFaces(material_faces)
    ELSE material_faces[mat_index][2]

CurrentMaterial ==
    IF mat_index = 0 THEN None ELSE Some(material_faces[mat_index][1])

\* Lines 558-569 and 591-602: one face.
ResolveFaceStep ==
    /\ cpc = "resolve"
    /\ face_index < Len(CurrentFaces)
    /\ \E r \in {ResolveFace(CurrentFaces[face_index + 1], CurrentMaterial,
                             use_vertex_color)} :
         IF r.err # NoError
         THEN /\ cerr' = r.err
              /\ cpc' = "failed"
              /\ UNCHANGED <<face_index, resolved_tris, resolved_quads>>
         ELSE /\ face_index' = face_index + 1
              /\ resolved_tris' = IF Len(r.keys) = 3
                                  THEN Append(resolved_tris, r.keys)
                                  ELSE resolved_tris
              /\ resolved_quads' = IF Len(r.keys) = 3 THEN resolved_quads
                                   ELSE Append(resolved_quads, r.keys)
              /\ UNCHANGED <<cerr, cpc>>
    /\ UNCHANGED <<varsEnv, varsObj, varsDlmm, multi_material, no_strip,
                   mat_index, strip_calls, written, args_texture, files,
                   materials, tex_sizes>>

\* Variant: the container is saved anew after every batch.
GenerateStepSaveEachBatch ==
    /\ cpc = "resolve"
    /\ face_index = Len(CurrentFaces)
    /\ strip_calls' =
           strip_calls \o StripCalls(resolved_tris, resolved_quads, no_strip)
    /\ LET mat_name == IF mat_index = 0 THEN DefaultMaterial
                       ELSE material_faces[mat_index][1]
           mat_props == MaterialsGet(materials, mat_name)
           mat_tex_size ==
               IF mat_index = 0 THEN texture_size
               ELSE BatchTexSize(mat_props, files.images, texture_size)
           alpha == Get(mat_props, "d", Float(4))
       IN  /\ tex_sizes' = Append(tex_sizes, mat_tex_size)
           /\ \E g \in {generate_display_list(
                            resolved_tris, resolved_quads,
                            Env(vertices, texcoords, normals, mat_tex_size,
                                model_scale, model_translation,
                                use_vertex_color),
                            no_strip)} :
                IF g.err # ""
                THEN /\ cerr' = OtherError(g.err)
                     /\ cpc' = "failed"
                     /\ UNCHANGED <<mat_index, face_index, resolved_tris,
                                    resolved_quads, written, submeshes>>
                ELSE IF mat_index = 0
                THEN /\ written' = [format |-> "dl", content |-> g.dl]
                     /\ cpc' = "done"
                     /\ UNCHANGED <<mat_index, face_index, resolved_tris,
                                    resolved_quads, cerr, submeshes>>
                ELSE IF AlphaErr(alpha) # ""
                THEN /\ cerr' = OtherError(AlphaErr(alpha))
                     /\ cpc' = "failed"
                     /\ UNCHANGED <<mat_index, face_index, resolved_tris,
                                    resolved_quads, written, submeshes>>
                ELSE /\ submeshes' =
                           Append(submeshes, Submesh(mat_name, g.dl, mat_props))
                     /\ IF mat_index < Len(material_faces)
                        THEN /\ mat_index' = mat_index + 1
                             /\ face_index' = 0
                             /\ resolved_tris' = <<>>
                             /\ resolved_quads' = <<>>
                             /\ written' = [format |-> "dlmm",
                                            content |-> submeshes']
                             /\ UNCHANGED cpc
                        ELSE /\ written' = [format |-> "dlmm",
                                            content |-> submeshes']
                             /\ cpc' = "done"
                             /\ UNCHANGED <<mat_index, face_index,
                                            resolved_tris, resolved_quads>>
                     /\ UNCHANGED cerr
    /\ UNCHANGED <<varsEnv, varsObj, output_file, dpc, multi_material,
                   no_strip, args_texture, files, materials>>

\* Lines 572-576 on the legacy path; lines 604-641 on the other, with the
\* start of the next material or, after the last one, lines 644-647.
GenerateStep ==
    /\ cpc = "resolve"
    /\ face_index = Len(CurrentFaces)
    /\ strip_calls' =
           strip_calls \o StripCalls(resolved_tris, resolved_quads, no_strip)
    /\ LET mat_name == IF mat_index = 0 THEN DefaultMaterial
                       ELSE material_faces[mat_index][1]
           mat_props == MaterialsGet(materials, mat_name)
           mat_tex_size ==
               IF mat_index = 0 THEN texture_size
               ELSE BatchTexSize(mat_props, files.images, texture_size)
           alpha == Get(mat_props, "d", Float(4))
       IN  /\ tex_sizes' = Append(tex_sizes, mat_tex_size)
           /\ \E g \in {generate_display_list(
                            resolved_tris, resolved_quads,
                            Env(vertices, texcoords, normals, mat_tex_size,
                                model_scale, model_translation,
                                use_vertex_color),
                            no_strip)} :
                IF g.err # ""
                THEN /\ cerr' = OtherError(g.err)
                     /\ cpc' = "failed"
                     /\ UNCHANGED <<mat_index, face_index, resolved_tris,
                                    resolved_quads, written, submeshes>>
                ELSE IF mat_index = 0
                THEN /\ written' = [format |-> "dl", content |-> g.dl]
                     /\ cpc' = "done"
                     /\ UNCHANGED <<mat_index, face_index, resolved_tris,
                                    resolved_quads, cerr, submeshes>>
                ELSE IF AlphaErr(alpha) # ""
                THEN /\ cerr' = OtherError(AlphaErr(alpha))
                     /\ cpc' = "failed"
                     /\ UNCHANGED <<mat_index, face_index, resolved_tris,
                                    resolved_quads, written, submeshes>>
                ELSE /\ submeshes' =
                           Append(submeshes, Submesh(mat_name, g.dl, mat_props))
                     /\ IF mat_index < Len(material_faces)
                        THEN /\ mat_index' = mat_index + 1
                             /\ face_index' = 0
                             /\ resolved_tris' = <<>>
                             /\ resolved_quads' = <<>>
                             /\ UNCHANGED <<written, cpc>>
                        ELSE /\ written' = [format |-> "dlmm",
                                            content |-> submeshes']
                             /\ cpc' = "done"
                             /\ UNCHANGED <<mat_index, face_index,
                                            resolved_tris, resolved_quads>>
                     /\ UNCHANGED cerr
    /\ UNCHANGED <<varsEnv, varsObj, output_file, dpc, multi_material,
                   no_strip, args_texture, files, materials>>

----------------------------------------------------------------------------
(* The whole conversion: convert_obj with multi_material set reads the     *)
(* file line by line through parse_obj, then converts what it returned.    *)

VertexLines == [k \in 1..3 |-> <<"v">> \o SubSeq(VertexFields, k, k + 2)]

\* Three vertices; or three vertices, a face of the default material, a
\* material declared without a face and a face of another material.
PipelineStarts ==
    {VertexLines,
     VertexLines \o <<<<"f", "1", "2", "3">>, <<"usemtl", "A">>,
                      <<"usemtl", "B">>, <<"f", "2", "1", "3">>>>}

PipelineLines ==
    {<<"f", "1", "2", "3">>, <<"f", "2", "1", "3">>,
     <<"usemtl", "A">>, <<"usemtl", "B">>}

InitPipeline ==
    /\ InitObjFrom(PipelineStarts, {FALSE})
    /\ multi_material = TRUE
    /\ no_strip \in BOOLEAN
    /\ mat_index = 0
    /\ face_index = 0
    /\ resolved_tris = <<>>
    /\ resolved_quads = <<>>
    /\ strip_calls = <<>>
    /\ cerr = NoError
    /\ written = NotWritten
    /\ cpc = "build"
    /\ args_texture = None
    /\ files = NoFiles
    /\ materials = <<>>
    /\ tex_sizes = <<>>
    /\ submeshes = <<>>
    /\ output_file = None
    /\ dpc = "idle"

PipelineReadLine ==
    ReadLineOf(PipelineLines, StartLenOf(PipelineStarts, obj_file))

----------------------------------------------------------------------------
(* Two runs of the converter on the same parsed input with the same        *)
(* arguments.  A run is a process of the interpreter, with its own hash    *)
(* seed; the second run starts when the first has ended.                   *)

IdleRun ==
    /\ hash_seed = 0
    /\ strip_results = <<>>
    /\ previous = None

\* A: Kd 1.5 1 0.5, Ka 1 0 0.25, Ks 1 1 1, Ke 0.5 2 0.
LibraryShiny ==
    <<<<<<"A">>, [MtlDefaults EXCEPT !.Kd = <<6, 4, 2>>, !.Ka = <<4, 0, 1>>,
                                     !.Ks = <<4, 4, 4>>,
                                     !.Ke = <<2, 8, 0>>]>>>>

\* Four vertices with a colour each; or these, a material library, two
\* adjacent triangles of the default material and the declaration of a
\* second material.
RerunStarts ==
    LET four == [k \in 1..4 |-> <<"v">> \o SubSeq(VertexFields, k, k + 2)
                                      \o SubSeq(VertexFields, k + 1, k + 3)]
    IN  {four,
         four \o <<<<"mtllib", "m.mtl">>,
                   <<"f", "1", "2", "3">>, <<"f", "2", "1", "3">>,
                   <<"usemtl", "A">>>>}

\* Two adjacent triangles, two adjacent quads, a triangle with an index
\* past the table and a declaration.
RerunLines ==
    {<<"f", "1", "2", "3">>, <<"f", "2", "1", "3">>,
     <<"f", "1", "2", "3", "4">>, <<"f", "2", "1", "4", "3">>,
     <<"f", "1", "2", "9">>, <<"usemtl", "A">>}

InitRerun ==
    /\ InitObjFrom(RerunStarts, BOOLEAN)
    /\ multi_material = TRUE
    /\ no_strip \in BOOLEAN
    /\ mat_index = 0
    /\ face_index = 0
    /\ resolved_tris = <<>>
    /\ resolved_quads = <<>>
    /\ strip_calls = <<>>
    /\ cerr = NoError
    /\ written = NotWritten
    /\ cpc = "build"
    /\ args_texture = None
    /\ files = [mtl |-> Some(LibraryShiny), images |-> NoImages]
    /\ materials = <<>>
    /\ tex_sizes = <<>>
    /\ submeshes = <<>>
    /\ output_file = None
    /\ dpc = "idle"
    /\ hash_seed = 0
    /\ strip_results = <<>>
    /\ previous = None

RerunReadLine ==
    ReadLineOf(RerunLines, StartLenOf(RerunStarts, obj_file))

\* Lines 322-327: the strips and the separate faces generate_display_list
\* gets for a batch.
StripResults(resolved_tris_, resolved_quads_, nostrip) ==
    LET tri == IF nostrip THEN NoStrips(resolved_tris_)
               ELSE stripify_triangles(resolved_tris_)
        quad == IF nostrip THEN NoStrips(resolved_quads_)
                ELSE stripify_quads(resolved_quads_)
    IN  [tri_strips |-> tri.strips, tri_singles |-> tri.singles,
         quad_strips |-> quad.strips, quad_singles |-> quad.singles]

\* GenerateStep, with what the stripifiers returned to it recorded.
GenerateStepRecorded ==
    /\ GenerateStep
    /\ strip_results' =
           Append(strip_results,
                  StripResults(resolved_tris, resolved_quads, no_strip))

\* What a run has produced when it ends.
Outcome ==
    [written |-> written, submeshes |-> submeshes,
     strip_results |-> strip_results, cerr |-> cerr]

\* The converter is started again, in a new process, on the same parsed
\* input and with the same arguments.
RunAgain ==
    /\ cpc \in {"done", "failed"}
    /\ previous = None
    /\ previous' = Some(Outcome)
    /\ hash_seed' \in {0, 1}
    /\ strip_results' = <<>>
    /\ mat_index' = 0
    /\ face_index' = 0
    /\ resolved_tris' = <<>>
    /\ resolved_quads' = <<>>
    /\ strip_calls' = <<>>
    /\ cerr' = NoError
    /\ written' = NotWritten
    /\ cpc' = "build"
    /\ materials' = <<>>
    /\ tex_sizes' = <<>>
    /\ submeshes' = <<>>
    /\ UNCHANGED <<varsEnv, varsObj, output_file, dpc, multi_material,
                   no_strip, args_texture, files>>

----------------------------------------------------------------------------
(* Specifications *)

NextVertex ==
    \/ ParseFaceVertex /\ UNCHANGED <<varsStrip, varsObj, varsDlmm, varsConv, varsPack, varsRun>>
    \/ EmitVertex /\ UNCHANGED <<varsStrip, varsObj, varsDlmm, varsConv, varsPack, varsRun>>

VertexInit ==
    InitVertex /\ IdleStrip /\ IdleObj /\ IdleDlmm /\ IdleConv /\ IdlePack
    /\ IdleRun

SpecVertex == VertexInit /\ [][NextVertex]_vars

NextStrip ==
    \/ AddFace /\ UNCHANGED <<varsEnv, varsTok, varsObj, varsDlmm, varsConv, varsPack, varsRun>>
    \/ StartStripify /\ UNCHANGED <<varsEnv, varsTok, varsObj, varsDlmm, varsConv, varsPack, varsRun>>
    \/ StripTriStep /\ UNCHANGED <<varsEnv, varsTok, varsObj, varsDlmm, varsConv, varsPack, varsRun>>
    \/ StripQuadStep /\ UNCHANGED <<varsEnv, varsTok, varsObj, varsDlmm, varsConv, varsPack, varsRun>>
    \/ StripReturn /\ UNCHANGED <<varsEnv, varsTok, varsObj, varsDlmm, varsConv, varsPack, varsRun>>

StripInit ==
    /\ InitStrip
    /\ use_vertex_color = FALSE
    /\ IdleTables
    /\ IdleTransform
    /\ IdleTok
    /\ IdleObj
    /\ IdleDlmm
    /\ IdleConv
    /\ IdlePack
    /\ IdleRun

NextParseObj ==
    \/ ReadLine /\ UNCHANGED <<varsTok, varsStrip, varsDlmm, varsConv, varsPack, varsRun>>
    \/ ParseObjReturn /\ UNCHANGED <<varsTok, varsStrip, varsDlmm, varsConv, varsPack, varsRun>>

ParseObjInit ==
    InitObj /\ IdleTok /\ IdleStrip /\ IdleDlmm /\ IdleConv /\ IdlePack
    /\ IdleRun

SpecParseObj == ParseObjInit /\ [][NextParseObj]_vars

NextDlmm ==
    \/ AddSubmesh /\ UNCHANGED <<varsEnv, varsTok, varsStrip, varsObj, varsConv, varsPack, varsRun>>
    \/ SaveDlmm /\ UNCHANGED <<varsEnv, varsTok, varsStrip, varsObj, varsConv, varsPack, varsRun>>

DlmmInit ==
    /\ InitDlmm
    /\ use_vertex_color = FALSE
    /\ IdleTables
    /\ IdleTransform
    /\ IdleTok
    /\ IdleStrip
    /\ IdleObj
    /\ IdleConv
    /\ IdlePack
    /\ IdleRun

SpecDlmm == DlmmInit /\ [][NextDlmm]_vars

NextConvert ==
    \/ Main /\ UNCHANGED <<varsTok, varsStrip, varsPack, varsRun>>
    \/ ParsedFace /\ UNCHANGED <<varsTok, varsStrip, varsPack, varsRun>>
    \/ StartConvert /\ UNCHANGED <<varsTok, varsStrip, varsPack, varsRun>>
    \/ ResolveFaceStep /\ UNCHANGED <<varsTok, varsStrip, varsPack, varsRun>>
    \/ GenerateStep /\ UNCHANGED <<varsTok, varsStrip, varsPack, varsRun>>

ConvertInit == InitConv /\ IdleTok /\ IdleStrip /\ IdlePack /\ IdleRun

SpecConvert == ConvertInit /\ [][NextConvert]_vars

NextPipeline ==
    \/ PipelineReadLine
           /\ UNCHANGED <<varsTok, varsStrip, varsDlmm, varsConv, varsPack, varsRun>>
    \/ ParseObjReturn
           /\ UNCHANGED <<varsTok, varsStrip, varsDlmm, varsConv, varsPack, varsRun>>
    \/ StartConvert /\ UNCHANGED <<varsTok, varsStrip, varsPack, varsRun>>
    \/ ResolveFaceStep /\ UNCHANGED <<varsTok, varsStrip, varsPack, varsRun>>
    \/ GenerateStep /\ UNCHANGED <<varsTok, varsStrip, varsPack, varsRun>>

PipelineInit ==
    InitPipeline /\ IdleTok /\ IdleStrip /\ IdlePack /\ IdleRun

SpecPipeline == PipelineInit /\ [][NextPipeline]_vars

NextPack ==
    PackColors /\ UNCHANGED <<varsEnv, varsTok, varsStrip, varsObj, varsDlmm,
                              varsConv, varsRun>>

PackInit ==
    /\ InitPack
    /\ use_vertex_color = FALSE
    /\ IdleTables
    /\ IdleTransform
    /\ IdleTok
    /\ IdleStrip
    /\ IdleObj
    /\ IdleDlmm
    /\ IdleConv
    /\ IdleRun

SpecPack == PackInit /\ [][NextPack]_vars

SpecStrip == StripInit /\ [][NextStrip]_vars

NextRerun ==
    \/ RerunReadLine
           /\ UNCHANGED <<varsTok, varsStrip, varsDlmm, varsConv, varsPack,
                          varsRun>>
    \/ ParseObjReturn
           /\ UNCHANGED <<varsTok, varsStrip, varsDlmm, varsConv, varsPack,
                          varsRun>>
    \/ StartConvert /\ UNCHANGED <<varsTok, varsStrip, varsPack, varsRun>>
    \/ ResolveFaceStep /\ UNCHANGED <<varsTok, varsStrip, varsPack, varsRun>>
    \/ GenerateStepRecorded
           /\ UNCHANGED <<varsTok, varsStrip, varsPack, hash_seed, previous>>
    \/ RunAgain /\ UNCHANGED <<varsTok, varsStrip, varsPack>>

RerunInit == InitRerun /\ IdleTok /\ IdleStrip /\ IdlePack

SpecRerun == RerunInit /\ [][NextRerun]_vars

----------------------------------------------------------------------------
(* Claims on the stripifiers, under SpecStrip *)

Range(f) == {f[i] : i \in DOMAIN f}

\* How often face fi is placed: once per position of a strip's folded faces,
\* once per position of the singles list.
Placements(fi) ==
    Cardinality({p \in UNION {{<<s, i>> : i \in 1..Len(folded[s])} :
                              s \in 1..Len(folded)} : folded[p[1]][p[2]] = fi})
    + Cardinality({i \in 1..Len(singles) : singles[i] = fi})

RECURSIVE SumTriFaces(_)
SumTriFaces(st) ==
    IF st = <<>> THEN 0 ELSE (Len(st[1]) - 2) + SumTriFaces(Tail(st))

RECURSIVE SumQuadFaces(_)
SumQuadFaces(st) ==
    IF st = <<>> THEN 0 ELSE ((Len(st[1]) - 2) \div 2) + SumQuadFaces(Tail(st))

StripRunning == spc \in {"loop", "done"}

\* C1: stripify_triangles partitions the faces: during the run a face is placed
\* at most once and exactly the used faces are placed; a strip of L keys holds
\* L-2 faces; at the return every face is placed exactly once, in one strip or
\* once in the singles, and sum(len(strip)-2) + len(singles) is the number of
\* triangles.
C1_TriPartition ==
    arity = 3 /\ StripRunning =>
        /\ \A fi \in 0..(Len(resolved) - 1) :
               Placements(fi) = IF fi \in used THEN 1 ELSE 0
        /\ \A s \in 1..Len(strips) : Len(strips[s]) - 2 = Len(folded[s])
        /\ spc = "done" =>
             /\ \A fi \in 0..(Len(resolved) - 1) : Placements(fi) = 1
             /\ SumTriFaces(strips) + Len(singles) = Len(resolved)

C1_Witness ==
    /\ arity = 3
    /\ spc = "done"
    /\ Len(resolved) = 3
    /\ Len(strips) = 1
    /\ Len(singles) = 1

\* C2: every strip of stripify_quads has an even length L >= 4 and holds
\* (L-2)/2 distinct quads; no quad is placed twice; at the return every quad
\* is placed once and sum((len(strip)-2)//2) + len(singles) is the number of
\* quads.
C2_QuadStrips ==
    arity = 4 /\ StripRunning =>
        /\ \A s \in 1..Len(strips) :
               /\ Len(strips[s]) % 2 = 0
               /\ Len(strips[s]) >= 4
               /\ Len(folded[s]) * 2 = Len(strips[s]) - 2
               /\ Cardinality(Range(folded[s])) = Len(folded[s])
        /\ \A fi \in 0..(Len(resolved) - 1) : Placements(fi) <= 1
        /\ spc = "done" =>
             /\ \A fi \in 0..(Len(resolved) - 1) : Placements(fi) = 1
             /\ SumQuadFaces(strips) + Len(singles) = Len(resolved)

C2_Witness ==
    /\ arity = 4
    /\ spc = "done"
    /\ Len(strips) = 1
    /\ Len(strips[1]) = 6
    /\ singles = <<>>

\* C3: decoding a strip gives back the key set of every face folded into it:
\* the k-th triangle is keys k, k+1, k+2 and the i-th quad is keys 2i..2i+3
\* (0-based), each equal as a set to the keys of the k-th (i-th) folded face.
C3_DecodeKeySets ==
    StripRunning =>
        \A s \in 1..Len(strips) : \A k \in 1..Len(folded[s]) :
            LET face == resolved[folded[s][k] + 1]
                st == strips[s]
            IN  IF arity = 3
                THEN {st[k], st[k + 1], st[k + 2]} = Range(face)
                ELSE {st[2 * k - 1], st[2 * k], st[2 * k + 1], st[2 * k + 2]}
                     = Range(face)

C3_Witness ==
    /\ arity = 3
    /\ spc = "done"
    /\ Len(strips) = 1
    /\ Len(strips[1]) = 5
    /\ Len(folded[1]) = 3

----------------------------------------------------------------------------
(* Claims on parse_face_vertex and emit_vertex, under SpecVertex *)

\* The slots of the token the code converts: the position always, the
\* texcoord when the token has two parts or a non-empty middle part, the
\* normal when the token has three parts and vertex colors are off.
TokReadsTexcoord ==
    Len(vertex_str) = 2 \/ (Len(vertex_str) = 3 /\ vertex_str[2] # "")
TokReadsNormal == Len(vertex_str) = 3 /\ ~use_vertex_color
TokWellFormed ==
    /\ Len(vertex_str) \in 1..3
    /\ PyIntOk(vertex_str[1])
    /\ TokReadsTexcoord => PyIntOk(vertex_str[2])
    /\ TokReadsNormal => PyIntOk(vertex_str[3])
NegativeLiteral(s) == PyIntOk(s) /\ PyInt(s) < 0
TokAnyNegative ==
    /\ Len(vertex_str) \in 1..3
    /\ \/ NegativeLiteral(vertex_str[1])
       \/ TokReadsTexcoord /\ NegativeLiteral(vertex_str[2])
       \/ TokReadsNormal /\ NegativeLiteral(vertex_str[3])
ParseDone == vpc # "token"
ParseReturned == ParseDone /\ vk.err = ""

\* C5: whenever a vertex has been emitted, every index of its key lies within
\* 0..len(table)-1 of its table (an index outside makes the emission fail),
\* so that each command comes from the entry the 1-based raw index names.
C5_LookupInRange ==
    vpc = "emitted" =>
        /\ vk.key[1] \in 0..(Len(vertices) - 1)
        /\ vk.key[2] # None => vk.key[2][1] \in 0..(Len(texcoords) - 1)
        /\ vk.key[3] # None => vk.key[3][1] \in 0..(Len(normals) - 1)

\* C6: a token with a negative index in a slot the code reads never resolves:
\* the call raises, with the negative-index format error when every slot it
\* reads is an integer; a token whose indices are all non-negative returns
\* each raw index k as k-1.
C6_NegativeIsError ==
    ParseDone =>
        /\ TokAnyNegative => vk.err # ""
        /\ TokWellFormed /\ TokAnyNegative => vk.err = ErrNegative
        /\ TokWellFormed /\ ~TokAnyNegative =>
             /\ vk.err = ""
             /\ vk.key[1] = PyInt(vertex_str[1]) - 1
             /\ vk.key[2] = IF TokReadsTexcoord
                            THEN Some(PyInt(vertex_str[2]) - 1) ELSE None
             /\ vk.key[3] = IF TokReadsNormal
                            THEN Some(PyInt(vertex_str[3]) - 1) ELSE None

C6_Witness ==
    /\ vertex_str = <<"2", "", "-1">>
    /\ ~use_vertex_color
    /\ vpc = "failed"
    /\ vk.err = ErrNegative

\* C7: in vertex-color mode the normal slot is never read: the key's normal is
\* absent and the content of the slot cannot make the token fail (5/7/2 gives
\* (4, 6, None)); with vertex colors off v/vt/vn gives (v-1, vt-1, vn-1) and
\* v//vn gives an absent texcoord.
C7_NormalIgnoredWithColor ==
    /\ ParseReturned /\ use_vertex_color => vk.key[3] = None
    /\ ParseDone /\ use_vertex_color /\ Len(vertex_str) = 3
         /\ PyIntOk(vertex_str[1]) /\ PyInt(vertex_str[1]) >= 0
         /\ PyIntOk(vertex_str[2]) /\ PyInt(vertex_str[2]) >= 0
       => vk = Return(<<PyInt(vertex_str[1]) - 1,
                        Some(PyInt(vertex_str[2]) - 1), None>>)
    /\ ParseDone /\ use_vertex_color /\ vertex_str = <<"5", "7", "2">>
       => vk = Return(<<4, Some(6), None>>)
    /\ ParseReturned /\ ~use_vertex_color /\ Len(vertex_str) = 3
       => /\ vk.key[1] = PyInt(vertex_str[1]) - 1
          /\ vk.key[3] = Some(PyInt(vertex_str[3]) - 1)
          /\ vertex_str[2] # "" => vk.key[2] = Some(PyInt(vertex_str[2]) - 1)
          /\ vertex_str[2] = "" => vk.key[2] = None

C7_Witness ==
    /\ vertex_str = <<"5", "7", "2">>
    /\ use_vertex_color
    /\ vpc = "parsed"
    /\ vk.key = <<4, <<6>>, <<>>>>

----------------------------------------------------------------------------
(* Claims on parse_obj.  Every line of obj_file has been processed, the   *)
(* last one with an exception when opc = "failed".                         *)

\* The lines of the file without their comments.
ObjLines == [i \in 1..Len(obj_file) |-> StripComment(obj_file[i])]

IsCmd(line, cmd) == Len(line) >= 1 /\ line[1] = cmd

\* The number of fields of a line.
FieldCount(line) == Len(line) - 1

NumericFields(line) == \A j \in 2..Len(line) : line[j] \in FloatLiterals

FieldValues(line) == [j \in 1..FieldCount(line) |-> PyFloat(line[j + 1])]

IsVertexLine(line) == IsCmd(line, "v") /\ NumericFields(line)

LastLine == StripComment(obj_file[Len(obj_file)])

LastVertexLine == obj_file # <<>> /\ IsVertexLine(LastLine)

\* The vertex lines that the amended C8 says are stored.
StoredVertexLines ==
    LET lines == ObjLines
    IN  {i \in 1..Len(lines) :
            /\ IsVertexLine(lines[i])
            /\ \/ FieldCount(lines[i]) = 6
               \/ FieldCount(lines[i]) = 3 /\ ~use_vertex_color}

IsFormatError(e) == e \in {ErrNoColor, ErrUnsupportedVertex, ErrPolyline}

FaceLines(lines) ==
    {i \in 1..Len(lines) : IsCmd(lines[i], "f") /\ FieldCount(lines[i]) >= 1}

Declarations(lines) ==
    {i \in 1..Len(lines) :
        IsCmd(lines[i], "usemtl") /\ FieldCount(lines[i]) >= 1}

\* The material named by the last usemtl declaration before line i.
MaterialAt(lines, decl, i) ==
    LET before == {j \in decl : j < i}
    IN  IF before = {} THEN DefaultMaterial
        ELSE Tail(lines[CHOOSE j \in before : \A m \in before : m <= j])

\* The material of every face line.
FaceMaterials(lines) ==
    LET decl == Declarations(lines)
    IN  [i \in FaceLines(lines) |-> MaterialAt(lines, decl, i)]

\* The faces attributed to material m, in file order.
FacesOfMaterial(lines, mats, m) ==
    LET IsOf(i) == i \in DOMAIN mats /\ mats[i] = m
        idx == SelectSeq([i \in 1..Len(lines) |-> i], IsOf)
    IN  [j \in 1..Len(idx) |-> Tail(lines[idx[j]])]

\* C9: every face line is attributed to the material of the most recent
\* usemtl declaration before it, or to the default material when there is
\* none, and the faces of a material keep their order in the file.
C9_FacesByMaterial ==
    LET lines == ObjLines
        mats == FaceMaterials(lines)
    IN  /\ \A i \in DOMAIN mats :
             \E e \in 1..Len(material_faces) : material_faces[e][1] = mats[i]
        /\ \A e \in 1..Len(material_faces) :
             material_faces[e][2] =
                 FacesOfMaterial(lines, mats, material_faces[e][1])
        /\ \A e, f \in 1..Len(material_faces) :
             material_faces[e][1] = material_faces[f][1] => e = f

\* The file went back to a material declared earlier: that material has
\* faces on both sides of a face of another material.
C9_Witness ==
    /\ opc = "returned"
    /\ LET mats == FaceMaterials(ObjLines)
       IN  \E i, j, k \in DOMAIN mats :
             /\ i < j /\ j < k
             /\ mats[i] = mats[k]
             /\ mats[i] # mats[j]

----------------------------------------------------------------------------
(* Claims on save_dlmm, read back from the bytes of the file.              *)

FileBytes == output_file[1]

\* The little-endian 32-bit value at byte position pos (from 0).
U32At(bytes, pos) ==
    bytes[pos + 1] + 256 * bytes[pos + 2] + 65536 * bytes[pos + 3]
    + 16777216 * bytes[pos + 4]

\* The offset and length fields of the header of submesh i (from 1).
OffsetField(i) == U32At(FileBytes, 12 + 56 * (i - 1))
LengthField(i) == U32At(FileBytes, 12 + 56 * (i - 1) + 4)

RECURSIVE SumLengths(_)
SumLengths(i) == IF i = 0 THEN 0 ELSE Len(submeshes[i].dl) + SumLengths(i - 1)

\* C10: in a file written for n submeshes the first offset is 12 + 56*n,
\* each following offset is the previous offset plus the previous payload
\* length, each length field is the byte length of its payload, the bytes
\* at each offset are that payload, and 12 + 56*n + the sum of the payload
\* lengths is the size of the file.
C10_OffsetsTilePayloads ==
    dpc = "saved" =>
        LET n == Len(submeshes)
        IN  /\ n >= 1 => OffsetField(1) = 12 + 56 * n
            /\ \A i \in 1..(n - 1) :
                 OffsetField(i + 1) = OffsetField(i) + Len(submeshes[i].dl)
            /\ \A i \in 1..n :
                 /\ LengthField(i) = Len(submeshes[i].dl)
                 /\ SubSeq(FileBytes, OffsetField(i) + 1,
                           OffsetField(i) + LengthField(i)) = submeshes[i].dl
            /\ 12 + 56 * n + SumLengths(n) = Len(FileBytes)

\* A file of two submeshes whose first payload is not empty, so that the
\* second offset differs from the first.
C10_Witness ==
    /\ dpc = "saved"
    /\ Len(submeshes) = 2
    /\ Len(submeshes[1].dl) > 0
    /\ Len(submeshes[2].dl) > 0
    /\ OffsetField(2) > OffsetField(1)

----------------------------------------------------------------------------
(* Claims on convert_obj.                                                  *)

BadArity(face) == Len(face) \notin {3, 4}

InputFaces == AllFaces(material_faces)

InputHasBadFace == \E i \in 1..Len(InputFaces) : BadArity(InputFaces[i])

ConvEnded == cpc \in {"done", "failed"}

\* The face that the loop of line 558 or 591 stands at, if any.
AtFace == cpc # "build" /\ face_index < Len(CurrentFaces)

\* The materials whose batch has been generated (none on the legacy path).
BatchesGenerated == IF mat_index = 0 THEN 0 ELSE mat_index - 1

\* C4 as stated, read in favour of the sentence (a conversion that another
\* exception ends first is not counted): when a face of the input has a
\* number of corners other than 3 or 4, in either mode, the conversion does
\* not complete, and when it ends with the arity error no stripifier call
\* has been made.
C4_ArityErrorBeforeAnyStrip ==
    InputHasBadFace =>
        /\ cpc # "done"
        /\ cerr.kind = ErrUnsupportedPolygons => strip_calls = <<>>

\* C4, amended: the conversion never passes over a face whose number of
\* corners is other than 3 or 4: reaching one ends it with the format error
\* naming that arity (and, in multi-material mode, the material), nothing
\* is written, and a conversion that completes had no such face.  On the
\* single-material path no stripifier call precedes the error.  In
\* multi-material mode the batches of the materials before the offending
\* one have been generated, and stripified unless no_strip is set; the
\* offending batch and the later ones have not.
C4_ArityErrorAtFirstBadFace ==
    /\ \A i \in 1..face_index : ~BadArity(CurrentFaces[i])
    /\ \A m \in 1..BatchesGenerated :
         \A i \in 1..Len(material_faces[m][2]) :
             ~BadArity(material_faces[m][2][i])
    /\ cpc = "done" => ~InputHasBadFace
    /\ (cpc = "failed" /\ AtFace /\ BadArity(CurrentFaces[face_index + 1]))
           => cerr.kind = ErrUnsupportedPolygons
    /\ cerr.kind = ErrUnsupportedPolygons =>
         /\ cpc = "failed"
         /\ AtFace
         /\ BadArity(CurrentFaces[face_index + 1])
         /\ cerr.arity = Len(CurrentFaces[face_index + 1])
         /\ cerr.material = CurrentMaterial
         /\ written = NotWritten
         /\ mat_index = 0 => strip_calls = <<>>
         /\ Len(strip_calls) = IF no_strip THEN 0 ELSE 2 * BatchesGenerated
         /\ \A c \in 1..Len(strip_calls) :
              LET m == (c + 1) \div 2
              IN  /\ strip_calls[c][1] = IF c % 2 = 1 THEN "stripify_triangles"
                                         ELSE "stripify_quads"
                  /\ Len(strip_calls[c][2]) =
                       Cardinality({i \in 1..Len(material_faces[m][2]) :
                           Len(material_faces[m][2][i]) =
                               IF c % 2 = 1 THEN 3 ELSE 4})

\* The arity error raised in the second material of a multi-material
\* conversion, after the batch of the first one has been stripified.
C4_Witness ==
    /\ cerr.kind = ErrUnsupportedPolygons
    /\ multi_material
    /\ mat_index = 2
    /\ ~no_strip
    /\ Len(strip_calls) = 2
    /\ cerr.arity = 5

----------------------------------------------------------------------------
(* Claims on the submesh headers of save_dlmm.                             *)

\* The little-endian 16-bit value at byte position pos (from 0).
U16At(bytes, pos) == bytes[pos + 1] + 256 * bytes[pos + 2]

\* The 32 bytes at the end of the 56 bytes of header i (from 1).
NameSlot(i) == SubSeq(FileBytes, 12 + 56 * (i - 1) + 25, 12 + 56 * i)

\* The bytes of a slot before its first zero byte.
BeforeFirstZero(slot) ==
    LET zeros == {j \in 1..Len(slot) : slot[j] = 0}
    IN  IF zeros = {} THEN slot
        ELSE SubSeq(slot, 1, (CHOOSE j \in zeros : \A k \in zeros : j <= k) - 1)

IsAscii(name) == \A j \in 1..Len(name) : name[j] < 128

\* What C11 says of the header of submesh i, but for its last sentence.
HeaderLayout(i) ==
    LET sub == submeshes[i]
        slot == NameSlot(i)
        kept == IF Len(sub.name) < 31 THEN Len(sub.name) ELSE 31
    IN  /\ U16At(FileBytes, 12 + 56 * (i - 1) + 20) = sub.alpha
        /\ U16At(FileBytes, 12 + 56 * (i - 1) + 22) =
               (IF sub.has_texture THEN 1 ELSE 0)
        /\ Len(slot) = 32
        /\ \A j \in 1..kept :
             slot[j] = IF sub.name[j] < 128 THEN sub.name[j] ELSE 63
        /\ \A j \in (kept + 1)..32 : slot[j] = 0
        /\ slot[32] = 0

\* C11 as stated: every header is 56 bytes and ends with a 32-byte slot
\* holding at most the first 31 bytes of the encoded name and then only
\* zero bytes, and for a name of at most 31 ASCII characters the slot
\* content before the first zero is the name.
C11_NameSlotAnyAscii ==
    dpc = "saved" =>
        \A i \in 1..Len(submeshes) :
            /\ HeaderLayout(i)
            /\ (Len(submeshes[i].name) <= 31 /\ IsAscii(submeshes[i].name))
                   => BeforeFirstZero(NameSlot(i)) = submeshes[i].name

\* C11, amended: the same, the last sentence being for a name of at most 31
\* ASCII characters none of which is the NUL character.
C11_NameSlot ==
    dpc = "saved" =>
        /\ submeshes # <<>> => OffsetField(1) = 12 + 56 * Len(submeshes)
        /\ \A i \in 1..Len(submeshes) :
            /\ HeaderLayout(i)
            /\ (/\ Len(submeshes[i].name) <= 31
                /\ IsAscii(submeshes[i].name)
                /\ \A j \in 1..Len(submeshes[i].name) :
                     submeshes[i].name[j] # 0)
                   => BeforeFirstZero(NameSlot(i)) = submeshes[i].name

\* A file with a name cut to 31 bytes and a name with a replaced character.
C11_Witness ==
    /\ dpc = "saved"
    /\ \E i \in 1..Len(submeshes) : Len(submeshes[i].name) = 32
    /\ \E i \in 1..Len(submeshes) : ~IsAscii(submeshes[i].name)

----------------------------------------------------------------------------
(* Claims on the packing functions of mtl_parser *)

\* Bits lo .. lo + n - 1 of a non-negative word.
BitField(word, lo, n) == (word \div (2 ^ lo)) % (2 ^ n)

\* The 5-bit channel of a float counted in quarters: 31 times the value,
\* truncated toward zero, clamped to 0..31.
Channel5(q) ==
    LET scaled == IF q >= 0 THEN (31 * q) \div 4 ELSE -((31 * (-q)) \div 4)
    IN  IF scaled < 0 THEN 0 ELSE IF scaled > 31 THEN 31 ELSE scaled

PackedLayout(word) ==
    /\ word >= 0
    /\ BitField(word, 0, 5) = Channel5(first_color[1])
    /\ BitField(word, 5, 5) = Channel5(first_color[2])
    /\ BitField(word, 10, 5) = Channel5(first_color[3])
    /\ BitField(word, 15, 1) = (IF flag THEN 1 ELSE 0)
    /\ BitField(word, 16, 5) = Channel5(second_color[1])
    /\ BitField(word, 21, 5) = Channel5(second_color[2])
    /\ BitField(word, 26, 5) = Channel5(second_color[3])
    /\ word \div (2 ^ 16) < 2 ^ 15

\* C13: both packing functions put the RGB15 value of the first colour in
\* bits 0-14 (red 0-4, green 5-9, blue 10-14, each channel clamped to
\* 0..31), the RGB15 value of the second colour in bits 16-30, set bit 15
\* exactly when the flag argument is true, and return a non-negative word
\* below 2^31 (bit 31 and above clear).
C13_PackedLayout ==
    kpc = "packed" =>
        /\ PackedLayout(packed[1].diffuse_ambient)
        /\ PackedLayout(packed[1].specular_emission)

\* A call with the flag set, a first colour with a channel above 1 and one
\* below 0, and a second colour with a channel above 1.
C13_Witness ==
    /\ kpc = "packed"
    /\ flag
    /\ first_color = <<6, -2, 2>>
    /\ second_color[3] = 8
    /\ packed[1].diffuse_ambient \div (2 ^ 16) >= 2 ^ 14

----------------------------------------------------------------------------
(* Claims on the materials of a multi-material conversion.  In the         *)
(* multi-material loop the i-th batch and the i-th submesh belong to the   *)
(* i-th entry of material_faces.                                           *)

\* The library the conversion can read: None when no library is referenced
\* or its file does not exist.
EffectiveLibrary ==
    IF mtl_file = None \/ files.mtl = None THEN <<>> ELSE files.mtl[1]

DefinedInLibrary(name) ==
    \E k \in 1..Len(EffectiveLibrary) : EffectiveLibrary[k][1] = name

RecordOf(name) ==
    EffectiveLibrary[CHOOSE k \in 1..Len(EffectiveLibrary) :
                         EffectiveLibrary[k][1] = name][2]

MultiPath == mat_index # 0

\* floor(31 * clamp(d, 0, 1)) for d counted in quarters.
FloorClampAlpha(q) ==
    LET clamped == IF q < 0 THEN 0 ELSE IF q > 4 THEN 4 ELSE q
    IN  (31 * clamped) \div 4

DissolveOf(name) ==
    IF DefinedInLibrary(name) THEN RecordOf(name).d ELSE Float(4)

FiniteAlphas ==
    MultiPath =>
        \A i \in 1..Len(submeshes) :
            LET d == DissolveOf(material_faces[i][1])
            IN  d.finite => submeshes[i].alpha = FloorClampAlpha(d.q)

\* C12: for every dissolve value of a material, the alpha stored for its
\* submesh is floor(31 * clamp(d, 0, 1)): no dissolve value makes the
\* conversion fail, and the stored alpha is that number.
C12_AlphaOfEveryDissolve ==
    /\ FiniteAlphas
    /\ cerr.kind \notin {"OverflowError"}

C12_FiniteWitness ==
    /\ cpc = "done"
    /\ Len(submeshes) = 3
    /\ submeshes[2].alpha = 15
    /\ submeshes[3].alpha = 31
    /\ DissolveOf(<<"B">>) = Float(6)

\* The texture size the claim gives the batch of a material.
ClaimedTexSize(name) ==
    LET declared == DefinedInLibrary(name) /\ RecordOf(name).map_Kd # None
        tex == RecordOf(name).map_Kd[1]
    IN  IF declared /\ tex \in DOMAIN files.images
           /\ files.images[tex][1] \in {8, 16, 32, 64, 128, 256, 512, 1024}
           /\ files.images[tex][2] \in {8, 16, 32, 64, 128, 256, 512, 1024}
        THEN files.images[tex]
        ELSE texture_size

\* C14: in multi-material mode the texture size of a material's batch is
\* the measured size of its texture image exactly when the material
\* declares a texture, the file exists and both measured dimensions are
\* valid; otherwise it is the global texture size; it depends on no other
\* material.
C14_MaterialTexSize ==
    MultiPath =>
        \A i \in 1..Len(tex_sizes) :
            tex_sizes[i] = ClaimedTexSize(material_faces[i][1])

\* Three batches: no record, a valid image, an image with an invalid width.
C14_Witness ==
    /\ cpc = "done"
    /\ files.images = ImagesMixed
    /\ texture_size = <<64, 64>>
    /\ tex_sizes = <<<<64, 64>>, <<128, 32>>, <<64, 64>>>>

\* C15: in every conversion the command-line entry point starts, with or
\* without --texture, the texture size of every batch has both its width
\* and its height in the valid set.
C15_BatchTexSizesValid ==
    \A i \in 1..Len(tex_sizes) :
        /\ tex_sizes[i][1] \in {8, 16, 32, 64, 128, 256, 512, 1024}
        /\ tex_sizes[i][2] \in {8, 16, 32, 64, 128, 256, 512, 1024}

C15_WithTextureArgument ==
    args_texture # None => C15_BatchTexSizesValid

\* C16: in multi-material mode a material without a record in the library
\* (no library referenced, library file missing, or name not defined in
\* it) does not make the conversion fail, any failure while it is processed
\* coming from a face, and its submesh has the default record.
C16_DefaultRecord ==
    MultiPath =>
        /\ \A i \in 1..Len(submeshes) :
               ~DefinedInLibrary(material_faces[i][1]) =>
                   /\ submeshes[i].diffuse_ambient = 32767
                   /\ submeshes[i].specular_emission = 0
                   /\ submeshes[i].color = 32767
                   /\ submeshes[i].alpha = 31
                   /\ ~submeshes[i].has_texture
        /\ (cpc = "failed" /\ ~DefinedInLibrary(material_faces[mat_index][1]))
               => cerr.kind \in {ErrUnsupportedPolygons, ErrInvalidFaceVertex,
                                 ErrNegative, ErrValue, ErrIndex}
        /\ cpc = "done" => Len(submeshes) = Len(material_faces)

\* A conversion that ends with the library file missing.
C16_Witness ==
    /\ cpc = "done"
    /\ mtl_file # None
    /\ files.mtl = None
    /\ Len(submeshes) = 2

C16_WitnessNoLibrary ==
    cpc = "done" /\ mtl_file = None /\ Len(submeshes) = 2

C16_WitnessUndefined ==
    /\ cpc = "done"
    /\ mtl_file # None
    /\ files.mtl = Some(LibraryTextured)
    /\ Len(submeshes) = 2

----------------------------------------------------------------------------
(* Claims on the blocks of a display list.  A block runs from a begin_vtxs *)
(* call to the next end_vtxs call.                                         *)

\* The display list generated last, with the faces of its batch: the one
\* written on the single-material path, or the one of the submesh just
\* appended.
LastBatch ==
    IF mat_index = 0
    THEN [dl |-> written.content, faces |-> AllFaces(material_faces)]
    ELSE [dl |-> submeshes[Len(submeshes)].dl,
          faces |-> material_faces[Len(submeshes)][2]]

\* A display list was generated in the step that led here.
JustGenerated ==
    \/ cpc = "done"
    \/ cpc = "resolve" /\ mat_index > 1 /\ face_index = 0

BeginsOf(dl) ==
    SelectSeq([i \in 1..Len(dl) |-> i], LAMBDA i : dl[i].op = "begin_vtxs")

EndOf(dl, b) ==
    CHOOSE e \in b..Len(dl) :
        /\ dl[e].op = "end_vtxs"
        /\ \A k \in b..(e - 1) : dl[k].op # "end_vtxs"

\* The arguments of the vertex submissions of the block that begins at b.
VtxOf(dl, b) ==
    LET inside == SelectSeq(SubSeq(dl, b + 1, EndOf(dl, b) - 1),
                            LAMBDA c : c.op = "vtx")
    IN  [k \in 1..Len(inside) |-> inside[k].args]

Repeat(x, n) == [k \in 1..n |-> x]

\* The resolved faces of a batch that have n corners, in face order.
FacesOfArity(faces, n) ==
    LET sel == SelectSeq(faces, LAMBDA f : Len(f) = n)
    IN  [k \in 1..Len(sel) |-> ResolveCorners(sel[k], use_vertex_color).keys]

\* The positions submitted for the corners of the separate faces.
CornerPositions(keys_of_faces, single_list) ==
    LET keys == Concat([k \in 1..Len(single_list) |->
                           keys_of_faces[single_list[k] + 1]])
    IN  [k \in 1..Len(keys) |->
            LET rec == PyIndex(vertices, keys[k][1])
            IN  [c \in 1..3 |-> (rec[c] + model_translation[c]) * model_scale]]

BlockOrder(dl, faces) ==
    LET tris == FacesOfArity(faces, 3)
        quads == FacesOfArity(faces, 4)
        tri == IF no_strip
               THEN [strips |-> <<>>, singles |-> [k \in 1..Len(tris) |-> k - 1]]
               ELSE stripify_triangles(tris)
        quad == IF no_strip
                THEN [strips |-> <<>>,
                      singles |-> [k \in 1..Len(quads) |-> k - 1]]
                ELSE stripify_quads(quads)
        begins == BeginsOf(dl)
        types == [k \in 1..Len(begins) |-> dl[begins[k]].args[1]]
        nts == Len(tri.strips)
        ntri == IF tri.singles = <<>> THEN 0 ELSE 1
        nqs == Len(quad.strips)
    IN  /\ types = Repeat("triangle_strip", nts)
                   \o Repeat("triangles", ntri)
                   \o Repeat("quad_strip", nqs)
                   \o Repeat("quads", IF quad.singles = <<>> THEN 0 ELSE 1)
        /\ \A k \in 1..Len(begins) :
               /\ begins[k] = IF k = 1 THEN 1 ELSE EndOf(dl, begins[k - 1]) + 1
               /\ \A j \in (begins[k] + 1)..EndOf(dl, begins[k]) :
                      dl[j].op # "begin_vtxs"
        /\ dl[Len(dl)].op = "finalize"
        /\ begins # <<>> => EndOf(dl, begins[Len(begins)]) = Len(dl) - 1
        /\ ntri = 1 =>
               VtxOf(dl, begins[nts + 1]) = CornerPositions(tris, tri.singles)
        /\ quad.singles # <<>> =>
               VtxOf(dl, begins[nts + ntri + nqs + 1]) =
                   CornerPositions(quads, quad.singles)
        /\ (Len(faces) = 1 /\ Len(faces[1]) = 3) =>
               /\ types = <<"triangles">>
               /\ Len(VtxOf(dl, 1)) = 3

C17_WitnessStripThenQuads ==
    /\ JustGenerated
    /\ LET begins == BeginsOf(LastBatch.dl)
       IN  /\ Len(begins) = 2
           /\ LastBatch.dl[begins[1]].args[1] = "triangle_strip"
           /\ LastBatch.dl[begins[2]].args[1] = "quads"

C17_WitnessTrianglesThenQuadStrip ==
    /\ JustGenerated
    /\ LET begins == BeginsOf(LastBatch.dl)
       IN  /\ Len(begins) = 2
           /\ LastBatch.dl[begins[1]].args[1] = "triangles"
           /\ LastBatch.dl[begins[2]].args[1] = "quad_strip"

C17_WitnessSingleTriangle ==
    /\ JustGenerated
    /\ Len(LastBatch.faces) = 1
    /\ Len(LastBatch.faces[1]) = 3
    /\ BeginsOf(LastBatch.dl) = <<1>>

----------------------------------------------------------------------------
(* Claims on the commands of one emitted vertex, under SpecVertex *)

EmittedOps == [k \in 1..Len(emitted.dl) |-> emitted.dl[k].op]

\* C18: the commands emit_vertex adds for a vertex key are, in this order,
\* the texture coordinate when the key has one, the normal when the key
\* has one, the colour when vertex colours are on, and then exactly one
\* vertex submission, which is always last.
C18_CommandOrder ==
    vpc = "emitted" =>
        EmittedOps = (IF vk.key[2] # None THEN <<"texcoord">> ELSE <<>>)
                     \o (IF vk.key[3] # None THEN <<"normal">> ELSE <<>>)
                     \o (IF use_vertex_color THEN <<"color">> ELSE <<>>)
                     \o <<"vtx">>

\* A vertex with a texture coordinate and a normal.
C18_Witness ==
    /\ vpc = "emitted"
    /\ vk.key[2] # None
    /\ vk.key[3] # None
    /\ Len(emitted.dl) = 3

C18_WitnessColor ==
    /\ vpc = "emitted"
    /\ vk.key[2] # None
    /\ use_vertex_color
    /\ Len(emitted.dl) = 3

\* The texture coordinate command of an emitted vertex whose key has one.
TexcoordEmitted ==
    vpc = "emitted" /\ vk.key[2] # None =>
        LET uv == PyIndex(texcoords, vk.key[2][1])
        IN  /\ emitted.dl[1] =
                   [op |-> "texcoord",
                    args |-> <<uv[1] * texture_size[1],
                               (4 - uv[2]) * texture_size[2]>>]
            /\ (uv = <<1, 1>> /\ texture_size = <<64, 64>>) =>
                   emitted.dl[1].args = <<4 * 16, 4 * 48>>

\* C19: the texture coordinate emitted for (u, v) with texture size (w, h)
\* is (u * w, (1 - v) * h), so that (0.25, 0.25) with (64, 64) gives
\* (16, 48); and emitting a vertex leaves the parsed texture-coordinate
\* table as it was.
C19_TexcoordFlipScale ==
    /\ []TexcoordEmitted
    /\ [][vpc' \in {"emitted", "failed"} => texcoords' = texcoords]_vars

\* (0.25, 0.25) emitted with the texture size (64, 64).
C19_Witness ==
    /\ vpc = "emitted"
    /\ vk.key[2] # None
    /\ texture_size = <<64, 64>>
    /\ PyIndex(texcoords, vk.key[2][1]) = <<1, 1>>
    /\ emitted.dl[1].args = <<64, 192>>

C19_WitnessNotSquare ==
    /\ vpc = "emitted"
    /\ vk.key[2] = Some(1)
    /\ texture_size = <<8, 128>>

----------------------------------------------------------------------------
(* Claims on the order of the submeshes, under SpecPipeline *)

\* The first face line of a material that has one.
FirstFaceOf(mats, m) ==
    CHOOSE i \in DOMAIN mats :
        mats[i] = m /\ \A j \in DOMAIN mats : mats[j] = m => i <= j

\* The display list of the faces a material has in the file.
BatchOf(lines, mats, m) ==
    LET faces == FacesOfMaterial(lines, mats, m)
    IN  generate_display_list(
            FacesOfArity(faces, 3), FacesOfArity(faces, 4),
            Env(vertices, texcoords, normals, texture_size, model_scale,
                model_translation, use_vertex_color),
            no_strip).dl

SubmeshOrder(lines, mats) ==
    LET with_faces == {mats[i] : i \in DOMAIN mats}
    IN  /\ \A i \in 1..Len(submeshes) :
               /\ submeshes[i].name \in with_faces
               /\ submeshes[i].dl = BatchOf(lines, mats, submeshes[i].name)
        /\ \A i, j \in 1..Len(submeshes) :
               i < j => FirstFaceOf(mats, submeshes[i].name)
                            < FirstFaceOf(mats, submeshes[j].name)
        /\ \A d \in Declarations(lines) :
               Tail(lines[d]) \notin with_faces =>
                   \A i \in 1..Len(submeshes) :
                       submeshes[i].name # Tail(lines[d])
        /\ cpc = "done" =>
               /\ written = [format |-> "dlmm", content |-> submeshes]
               /\ Len(submeshes) = Cardinality(with_faces)

\* C20: in what a multi-material conversion hands to the file writer, the
\* i-th name and the i-th display list belong to the same material, the
\* submeshes come in the order in which each material's first face appears
\* in the file, and a material declared by usemtl that has no face has no
\* submesh.
C20_SubmeshOrder ==
    MultiPath => SubmeshOrder(ObjLines, FaceMaterials(ObjLines))

\* A was declared before B but got its first face after it, and comes last.
C20_Witness ==
    /\ cpc = "done"
    /\ Len(submeshes) = 3
    /\ submeshes[2].name = <<"B">>
    /\ submeshes[3].name = <<"A">>

\* A was declared and never got a face.
C20_WitnessNoFace ==
    /\ cpc = "done"
    /\ Len(submeshes) = 2
    /\ submeshes[2].name = <<"B">>
    /\ \E i \in 1..Len(obj_file) : obj_file[i] = <<"usemtl", "A">>

----------------------------------------------------------------------------
(* Claims on the format of the output, under SpecPipeline *)

\* The materials that have at least one face in the file.
MaterialsWithFaces ==
    LET mats == FaceMaterials(ObjLines) IN {mats[i] : i \in DOMAIN mats}

\* A conversion asked for multi-material output and ended without an error.
MultiRequestedDone == multi_material /\ cpc = "done"

C21_WitnessOneMaterial ==
    /\ MultiRequestedDone
    /\ Cardinality(MaterialsWithFaces) = 1
    /\ written.format = "dl"

----------------------------------------------------------------------------
(* Claims on two runs of the conversion, under SpecRerun *)

\* A second run has ended.
SecondRunEnded == previous # None /\ cpc \in {"done", "failed"}

C22_WitnessContainer ==
    /\ SecondRunEnded
    /\ hash_seed = 1
    /\ written.format = "dlmm"
    /\ \E i \in 1..Len(strip_results) : strip_results[i].quad_strips # <<>>

----------------------------------------------------------------------------
(* Claims on the moment of the save, under SpecConvert *)

\* The batches of the conversion: one on the legacy path, one per material
\* on the other.
BatchCount == IF mat_index = 0 THEN 1 ELSE Len(material_faces)

\* C23: there is no partial output: when convert_obj ends in an error raised
\* while resolving faces, stripifying or emitting any batch, or building its
\* submesh record, nothing has been handed to the file writer; the single
\* save happens only when the conversion is done, after every batch has
\* been built.
C23_NoPartialOutput ==
    /\ cpc = "failed" => written = NotWritten /\ output_file = None
    /\ written # NotWritten =>
           /\ cpc = "done"
           /\ cerr = NoError
           /\ Len(tex_sizes) = BatchCount
           /\ written.format = "dlmm" =>
                  Len(written.content) = Len(material_faces)

\* The conversion failed in a later batch, after a submesh had been built.
C23_Witness ==
    /\ cpc = "failed"
    /\ Len(submeshes) >= 1
    /\ written = NotWritten

\* The conversion failed while emitting: an index past the vertex table.
C23_WitnessEmission ==
    /\ cpc = "failed"
    /\ cerr.kind = ErrIndex
    /\ face_index = Len(CurrentFaces)
    /\ written = NotWritten

----------------------------------------------------------------------------
(* Claims on adjacent faces, under SpecStrip *)

\* The edges of a face as it traverses them, and without their direction.
DirectedEdges(face) ==
    {<<face[i], face[(i % Len(face)) + 1]>> : i \in 1..Len(face)}

UndirectedEdges(face) == {{e[1], e[2]} : e \in DirectedEdges(face)}

SharedEdges(f, g) == UndirectedEdges(f) \cap UndirectedEdges(g)

\* The two faces traverse a common edge in opposite directions.
OppositeOnSomeEdge(f, g) ==
    \E e \in DirectedEdges(f) : <<e[2], e[1]>> \in DirectedEdges(g)

\* The batch is two quads that share exactly one edge, with opposite
\* directions.
TwoAdjacentQuads ==
    /\ arity = 4
    /\ Len(resolved) = 2
    /\ Cardinality(SharedEdges(resolved[1], resolved[2])) = 1
    /\ OppositeOnSomeEdge(resolved[1], resolved[2])

\* C24: for a batch of exactly two quads with distinct corners that share
\* exactly one edge and traverse it in opposite directions, whichever of
\* the two comes first and wherever their corner lists start, stripify_quads
\* returns exactly one strip, of length 6, and no separate quad.
C24_TwoQuadsOneStrip ==
    (spc = "done" /\ TwoAdjacentQuads) =>
        /\ Len(strips) = 1
        /\ Len(strips[1]) = 6
        /\ singles = <<>>
        /\ folded = <<<<0, 1>>>>

\* The shared edge is the last edge of the first quad's corner list and
\* lies in the middle of the second quad's list.
C24_Witness ==
    /\ spc = "done"
    /\ TwoAdjacentQuads
    /\ SharedEdges(resolved[1], resolved[2]) = {{resolved[1][4], resolved[1][1]}}
    /\ {resolved[2][2], resolved[2][3]} = {resolved[1][4], resolved[1][1]}
    /\ Len(strips) = 1

\* The two quads also have a corner in common outside the shared edge.
C24_WitnessExtraCorner ==
    /\ spc = "done"
    /\ TwoAdjacentQuads
    /\ Cardinality(Range(resolved[1]) \cap Range(resolved[2])) = 3

----------------------------------------------------------------------------
(* Claims on the calls made on a DisplayList, under SpecConvert *)

\* The calls dl[i..] follow the writer protocol from a point where a block
\* is open or not and holds vtx_count vertex submissions: begin_vtxs only
\* outside a block, attribute and vertex commands and end_vtxs only inside
\* one, end_vtxs only after a vertex submission, finalize outside a block
\* as the last call, and the list does not end without it.
RECURSIVE FollowsProtocol(_, _, _, _)
FollowsProtocol(dl, i, open, vtx_count) ==
    IF i > Len(dl) THEN FALSE
    ELSE LET op == dl[i].op
         IN  CASE op = "begin_vtxs" ->
                    ~open /\ FollowsProtocol(dl, i + 1, TRUE, 0)
               [] op = "vtx" ->
                    open /\ FollowsProtocol(dl, i + 1, TRUE, vtx_count + 1)
               [] op \in {"texcoord", "normal", "color"} ->
                    open /\ FollowsProtocol(dl, i + 1, TRUE, vtx_count)
               [] op = "end_vtxs" ->
                    /\ open
                    /\ vtx_count > 0
                    /\ dl[i - 1].op = "vtx"
                    /\ FollowsProtocol(dl, i + 1, FALSE, 0)
               [] op = "finalize" -> ~open /\ i = Len(dl)
               [] OTHER -> FALSE

\* The display lists generate_display_list has returned so far, and those
\* whose bytes the file writer reads.
ReturnedLists ==
    {submeshes[i].dl : i \in 1..Len(submeshes)}
    \cup (IF written.format = "dl" THEN {written.content} ELSE {})

SavedLists ==
    IF written.format = "dl" THEN {written.content}
    ELSE IF written.format = "dlmm"
    THEN {written.content[i].dl : i \in 1..Len(written.content)}
    ELSE {}

\* The calls dl[i..] can still be continued into a list that follows the
\* protocol: the same conditions, without a finalize so far.
RECURSIVE ProtocolPrefix(_, _, _, _)
ProtocolPrefix(dl, i, open, vtx_count) ==
    IF i > Len(dl) THEN TRUE
    ELSE LET op == dl[i].op
         IN  CASE op = "begin_vtxs" ->
                    ~open /\ ProtocolPrefix(dl, i + 1, TRUE, 0)
               [] op = "vtx" ->
                    open /\ ProtocolPrefix(dl, i + 1, TRUE, vtx_count + 1)
               [] op \in {"texcoord", "normal", "color"} ->
                    open /\ ProtocolPrefix(dl, i + 1, TRUE, vtx_count)
               [] op = "end_vtxs" ->
                    /\ open
                    /\ vtx_count > 0
                    /\ dl[i - 1].op = "vtx"
                    /\ ProtocolPrefix(dl, i + 1, FALSE, 0)
               [] OTHER -> FALSE

\* The conversion failed after every face of the current batch had been
\* resolved: in the generate_display_list call of the batch or right after
\* it.
FailedAfterResolve == cpc = "failed" /\ face_index = Len(CurrentFaces)

\* That call, made again on the same arguments.
FailedCall ==
    generate_display_list(
        resolved_tris, resolved_quads,
        Env(vertices, texcoords, normals, tex_sizes[Len(tex_sizes)],
            model_scale, model_translation, use_vertex_color),
        no_strip)

\* C25: on every DisplayList generate_display_list returns, every attribute
\* and vertex command lies between a begin_vtxs and its end_vtxs, blocks
\* are neither nested nor left open, no block is empty, and finalize is
\* called exactly once, after the last end_vtxs; every list whose bytes
\* are read or saved is such a list; and the calls made on a list whose
\* generation raises are a beginning of such a sequence, that list being
\* neither finalized nor read.
C25_WriterProtocol ==
    /\ \A dl \in ReturnedLists : FollowsProtocol(dl, 1, FALSE, 0)
    /\ SavedLists \subseteq ReturnedLists
    /\ FailedAfterResolve =>
           LET g == FailedCall
           IN  IF g.err = "" THEN FollowsProtocol(g.dl, 1, FALSE, 0)
               ELSE /\ cerr = OtherError(g.err)
                    /\ ProtocolPrefix(g.dl, 1, FALSE, 0)
                    /\ SavedLists = {}

\* A saved list of two blocks, one of them with texture coordinates.
C25_Witness ==
    /\ cpc = "done"
    /\ \E dl \in SavedLists :
           /\ Len(BeginsOf(dl)) = 2
           /\ \E i \in 1..Len(dl) : dl[i].op = "texcoord"

\* A saved list without any block: a batch without faces.
C25_WitnessNoBlock ==
    /\ cpc = "done"
    /\ SavedLists = {<<Cmd("finalize", <<>>)>>}

\* A list abandoned inside its second block.
C25_WitnessAbandoned ==
    /\ FailedAfterResolve
    /\ FailedCall.err # ""
    /\ Len(BeginsOf(FailedCall.dl)) = 2

\* g is f read from another starting corner, in the same direction.
IsRotation(f, g) ==
    /\ Len(f) = Len(g)
    /\ \E r \in 0..(Len(f) - 1) :
           \A j \in 1..Len(f) : g[j] = f[((j - 1 + r) % Len(f)) + 1]

\* The face that the k-th place of a strip decodes to (k from 0): the
\* triangle s[k], s[k+1], s[k+2] with its first two corners swapped at odd
\* places, the quad s[2k], s[2k+1], s[2k+3], s[2k+2].
Decoded(st, k) ==
    IF arity = 3
    THEN IF k % 2 = 0 THEN <<st[k + 1], st[k + 2], st[k + 3]>>
         ELSE <<st[k + 2], st[k + 1], st[k + 3]>>
    ELSE <<st[2 * k + 1], st[2 * k + 2], st[2 * k + 4], st[2 * k + 3]>>

\* C26: decoding a strip gives back every folded face with its orientation:
\* the triangle folded at an even place k is a cyclic rotation of (s[k],
\* s[k+1], s[k+2]), the one at an odd place of (s[k+1], s[k], s[k+2]), and
\* the i-th quad of a quad strip is a cyclic rotation of (s[2i], s[2i+1],
\* s[2i+3], s[2i+2]).
C26_DecodeKeepsOrientation ==
    StripRunning =>
        \A s \in 1..Len(strips) : \A k \in 1..Len(folded[s]) :
            IsRotation(resolved[folded[s][k] + 1], Decoded(strips[s], k - 1))

\* A triangle strip of three faces whose second face is listed from another
\* corner than the strip reads it.
C26_Witness ==
    /\ arity = 3
    /\ spc = "done"
    /\ \E s \in 1..Len(strips) :
           /\ Len(folded[s]) = 3
           /\ resolved[folded[s][2] + 1] # Decoded(strips[s], 1)

\* A quad strip whose second quad is listed from another corner.
C26_WitnessQuads ==
    /\ arity = 4
    /\ spc = "done"
    /\ \E s \in 1..Len(strips) :
           /\ Len(folded[s]) = 2
           /\ resolved[folded[s][2] + 1] # Decoded(strips[s], 1)

\* The faces still unused when strip s was completed: those of no strip up
\* to s that are not a single found before it (the outer loop takes the
\* start faces in increasing order, and a strip starts at its first folded
\* face).
UnusedAfter(s) ==
    {fi \in 0..(Len(resolved) - 1) :
        /\ \A t \in 1..s : fi \notin Range(folded[t])
        /\ ~(fi \in Range(singles) /\ fi < folded[s][1])}

\* The directed edge a face must have to be appended to a triangle strip:
\* p -> q of the last two keys when the strip holds an even number of
\* faces, q -> p when it holds an odd number.
ExitEdge(st, nfaces) ==
    IF nfaces % 2 = 0 THEN <<st[Len(st) - 1], st[Len(st)]>>
    ELSE <<st[Len(st)], st[Len(st) - 1]>>

\* C27: the extension loop of stripify_triangles stops only when no unused
\* face passes the directed-edge test for the exit edge: for every strip
\* returned, no face that was unused when the strip was completed (a face
\* of a later strip, or a later single) has the directed edge that would
\* extend the strip's last two keys at its final parity.
C27_StripsAreMaximal ==
    (arity = 3 /\ StripRunning) =>
        \A s \in 1..Len(strips) : \A fi \in UnusedAfter(s) :
            ExitEdge(strips[s], Len(folded[s]))
                \notin DirectedEdges(resolved[fi + 1])

\* A face left out of a strip has the strip's exit edge, in the direction
\* that does not extend it.
C27_Witness ==
    /\ arity = 3
    /\ spc = "done"
    /\ \E s \in 1..Len(strips) : \E fi \in UnusedAfter(s) :
           LET e == ExitEdge(strips[s], Len(folded[s]))
           IN  <<e[2], e[1]>> \in DirectedEdges(resolved[fi + 1])

----------------------------------------------------------------------------
(* Claims on the batches of the materials, under SpecRerun *)

\* What the stripifiers return for the faces a material has in the file,
\* taken alone.
StripsOfMaterialAlone(m) ==
    LET faces == FacesOfMaterial(ObjLines, FaceMaterials(ObjLines), m)
        tris == FacesOfArity(faces, 3)
        quads == FacesOfArity(faces, 4)
        tri == IF no_strip
               THEN [strips |-> <<>>, singles |-> [k \in 1..Len(tris) |-> k - 1]]
               ELSE stripify_triangles(tris)
        quad == IF no_strip
                THEN [strips |-> <<>>,
                      singles |-> [k \in 1..Len(quads) |-> k - 1]]
                ELSE stripify_quads(quads)
    IN  [tri_strips |-> tri.strips, tri_singles |-> tri.singles,
         quad_strips |-> quad.strips, quad_singles |-> quad.singles]

\* Every face a strip decodes to, as a key set, is a face of material m.
StripWithinMaterial(st, n, m) ==
    LET faces == FacesOfMaterial(ObjLines, FaceMaterials(ObjLines), m)
        own == {Range(ResolveCorners(faces[k], use_vertex_color).keys) :
                   k \in {k \in 1..Len(faces) : Len(faces[k]) = n}}
    IN  \A k \in 1..((Len(st) - 2) \div (n - 2)) :
            {st[(n - 2) * (k - 1) + j] : j \in 1..n} \in own

\* C28: in multi-material mode the strips and the separate faces of each
\* material are those the stripifier gives on that material's faces alone,
\* whatever faces the materials before it had, and every face folded into a
\* strip is a face of the strip's own material.
C28_BatchesAreSeparate ==
    MultiPath =>
        \A i \in 1..Len(strip_results) :
            LET m == material_faces[i][1]
            IN  /\ strip_results[i] = StripsOfMaterialAlone(m)
                /\ \A s \in 1..Len(strip_results[i].tri_strips) :
                       StripWithinMaterial(strip_results[i].tri_strips[s], 3, m)
                /\ \A s \in 1..Len(strip_results[i].quad_strips) :
                       StripWithinMaterial(strip_results[i].quad_strips[s], 4, m)

\* Two materials with the same two adjacent triangles: each gets its own
\* strip.
C28_Witness ==
    /\ MultiPath
    /\ cpc = "done"
    /\ Len(strip_results) = 2
    /\ strip_results[1].tri_strips # <<>>
    /\ strip_results[2].tri_strips = strip_results[1].tri_strips

\* The second material has a triangle that would extend the strip of the
\* first, and keeps it separate.
C28_WitnessNotMerged ==
    /\ MultiPath
    /\ cpc = "done"
    /\ Len(strip_results) = 2
    /\ strip_results[1].tri_strips # <<>>
    /\ strip_results[2].tri_strips = <<>>
    /\ strip_results[2].tri_singles = <<0>>

----------------------------------------------------------------------------
(* Claims on the faces left separate, under SpecStrip *)

\* C29: in what stripify_triangles and stripify_quads return, and in the
\* singles list at every moment of the run, no two faces left separate
\* share an edge that one traverses as p -> q and the other as q -> p: two
\* consistently oriented adjacent faces are never both left as independent
\* primitives.
C29_NoAdjacentSingles ==
    StripRunning =>
        \A i, j \in 1..Len(singles) :
            i # j => ~OppositeOnSomeEdge(resolved[singles[i] + 1],
                                         resolved[singles[j] + 1])

\* Two triangles left separate that share an edge and traverse it in the
\* same direction.
C29_Witness ==
    /\ arity = 3
    /\ spc = "done"
    /\ \E i, j \in 1..Len(singles) :
           /\ i # j
           /\ SharedEdges(resolved[singles[i] + 1],
                          resolved[singles[j] + 1]) # {}

\* The same for two quads.
C29_WitnessQuads ==
    /\ arity = 4
    /\ spc = "done"
    /\ \E i, j \in 1..Len(singles) :
           /\ i # j
           /\ SharedEdges(resolved[singles[i] + 1],
                          resolved[singles[j] + 1]) # {}

----------------------------------------------------------------------------
(* Claims on the packed fields of the submeshes, under SpecRerun *)

\* C30: in every submesh convert_obj produces, the low 16 bits of the
\* diffuse/ambient field are the standalone colour field, so that bit 15
\* (vertex colour as diffuse) is clear, with vertex-color mode on as well
\* as off; and bit 15 (shininess table) of the specular/emission field is
\* clear.
C30_FlagBitsClear ==
    \A i \in 1..Len(submeshes) :
        /\ submeshes[i].diffuse_ambient % 65536 = submeshes[i].color
        /\ BitField(submeshes[i].diffuse_ambient, 15, 1) = 0
        /\ BitField(submeshes[i].specular_emission, 15, 1) = 0

\* Vertex-color mode is on and a submesh has a diffuse colour with every
\* bit below bit 15 set, next to one with another colour and with a
\* specular colour.
C30_Witness ==
    /\ use_vertex_color
    /\ cpc = "done"
    /\ Len(submeshes) = 2
    /\ submeshes[1].color = 32767
    /\ submeshes[2].color # 32767
    /\ submeshes[2].specular_emission % 65536 = 32767
    /\ \E k \in 1..Len(submeshes[1].dl) : submeshes[1].dl[k].op = "color"

=============================================================================
